---- MODULE Spec2Model ----
(***************************************************************************)
(* Order-picking tour heuristic of riagl: solver.solve_instance and its    *)
(* twin AlgoV1.process.  One run of the heuristic on one instance is a     *)
(* state machine: Activate (order activation at the depot), Visit (one     *)
(* iteration of the nearest-product loop, packing included), Return (back  *)
(* to the arrival depot), Finalize (materialise the tour) and Output (the  *)
(* result structure built after the loop).  The programs around it have    *)
(* state machines of their own: the solution writer, the controller of the *)
(* blackboard pipeline, and the packing and batching of                    *)
(* algo_weight_and_volume_only.                                            *)
(***************************************************************************)
EXTENDS Integers, Sequences, FiniteSets, TLC

VARIABLES
    instance,                  \* the parsed instance (read-only during a run)
    orders_state,              \* order id -> (product id -> remaining quantity)
    all_order_ids,             \* list(orders_state.keys())
    tours_out,                 \* emitted tours
    orders_out_map,            \* reported order id -> number of boxes
    tour_id,
    global_box_id,
    total_travelled_distance,
    total_crossed_locations,
    active_orders,             \* locals of the current iteration of the run loop
    boxes,
    order_to_boxes,            \* key -> positions in boxes (references to the box objects)
    current_loc,
    travelled,
    crossed_locations,
    out,                       \* the Output structure, meaningful once pc = "done"
    pc,
    solutions,                 \* the solutions directory of run_solver.main
    knowledge_sources,         \* blackboard.knowledge_sources
    ks_index,                  \* position of Controller.run_knowledge_sources in that list
    calls,                     \* the verify and process calls made so far
    manager,                   \* the PackingManager (max_weight, max_volume)
    max_boxes,                 \* arguments and locals of fill_boxes_for_order
    remaining_items,
    order_boxes,
    box,
    batch,                     \* arguments of batch_boxes (boxes, K, shortest_paths, s, t)
    remaining_boxes,           \* locals of batch_boxes
    trolleys,
    trolley

\* the variables of solve_instance, its position excepted
solver_vars == <<instance, orders_state, all_order_ids, tours_out,
                 orders_out_map, tour_id, global_box_id,
                 total_travelled_distance, total_crossed_locations,
                 active_orders, boxes, order_to_boxes, current_loc, travelled,
                 crossed_locations, out>>

controller_vars == <<knowledge_sources, ks_index, calls>>

packing_vars == <<manager, max_boxes, remaining_items, order_boxes, box>>

batching_vars == <<batch, remaining_boxes, trolleys, trolley>>

\* the variables of the programs around solve_instance
other_vars == <<solutions, controller_vars, packing_vars, batching_vars>>

vars == <<solver_vars, pc, other_vars>>

-----------------------------------------------------------------------------
(* Bounds of the explored instances *)

MaxK == 2
MaxQty == 2
MaxUnit == 2
MaxCapa == 3
MaxDist == 2
MaxBoxId == 8
MaxDemand == 20
MaxBoxWeight == 5
MaxPaths == 2
MaxSources == 3
MaxItems == 2
MaxBatch == 3

(* Program constants *)

None == -1
DefaultK == 6
DefaultCapa == 1000000000
Unbounded == 1000000000
UnknownPath == 1000000

-----------------------------------------------------------------------------
(* Python helpers *)

Max(a, b) == IF a >= b THEN a ELSE b

Min(a, b) == IF a <= b THEN a ELSE b

Min3(a, b, c) == Min(a, Min(b, c))

Range(s) == {s[i] : i \in DOMAIN s}

\* dict.get(k, d)
Get(f, k, d) == IF k \in DOMAIN f THEN f[k] ELSE d

\* d[k] = v on a dict kept as a function
Put(f, k, v) == (k :> v) @@ f

EmptyDict == <<>>

\* Python `x or -1` on an integer: 0 is falsy
OrDefault(x) == IF x = 0 THEN -1 ELSE x

RECURSIVE SetIterOrder(_)
\* iteration order of a CPython set of small non-negative integers: the hash
\* of an int is the int, so the slots are scanned in ascending order
SetIterOrder(S) ==
    IF S = {} THEN <<>>
    ELSE LET m == CHOOSE x \in S : \A y \in S : x <= y
         IN <<m>> \o SetIterOrder(S \ {m})

\* sorted(d) on the keys of a dict of integers
SortedKeys(f) == SetIterOrder(DOMAIN f)

-----------------------------------------------------------------------------
(* Values read from the instance at the start of solve_instance *)

\* tours starting where they end
StartAtArrivalDepot == instance.graph.arrival_depot

start_loc == instance.graph.departing_depot

end_loc == instance.graph.arrival_depot

\* the value of the instance taken as it is
KWithoutDefault == instance.nb_boxes_trolley

\* K = int(instance.nb_boxes_trolley or 6): None and 0 are falsy
K ==
    IF instance.nb_boxes_trolley \in {None, 0}
    THEN DefaultK
    ELSE instance.nb_boxes_trolley

capa == IF instance.capa_box = <<>> THEN <<DefaultCapa, DefaultCapa>> ELSE instance.capa_box

max_w == IF Len(capa) > 0 THEN capa[1] ELSE DefaultCapa

max_v == IF Len(capa) > 1 THEN capa[2] ELSE DefaultCapa

RECURSIVE ProductsUpTo(_, _)
ProductsUpTo(ps, n) ==
    IF n = 0 THEN EmptyDict
    ELSE Put(ProductsUpTo(ps, n - 1), ps[n].id, ps[n])

\* {p["id"]: p for p in instance.products}
products_by_id == ProductsUpTo(instance.products, Len(instance.products))

prods == products_by_id

RECURSIVE KnownOneWay(_, _)
\* only the direction the table lists is stored
KnownOneWay(tbl, n) ==
    IF n = 0 THEN EmptyDict
    ELSE Put(KnownOneWay(tbl, n - 1),
             <<tbl[n].idDeparture, tbl[n].idArrival>>, tbl[n].distance)

RECURSIVE KnownUpTo(_, _)
KnownUpTo(tbl, n) ==
    IF n = 0 THEN EmptyDict
    ELSE LET p == tbl[n]
             a == p.idDeparture
             b == p.idArrival
             w == p.distance
         IN Put(Put(KnownUpTo(tbl, n - 1), <<a, b>>, w), <<b, a>>, w)

\* ShortestPathResolver.known
known == KnownUpTo(instance.graph.shortest_distances,
                   Len(instance.graph.shortest_distances))

\* a missing pair defaulted to the distance 0
DistUnknownAsZero(a, b) == IF a = b THEN 0 ELSE Get(known, <<a, b>>, 0)

\* ShortestPathResolver.dist
dist(a, b) == IF a = b THEN 0 ELSE Get(known, <<a, b>>, None)

-----------------------------------------------------------------------------
(* Order state *)

RECURSIVE RemUpTo(_, _)
\* the dict rem of build_orders_state after the first n lines of an order
RemUpTo(lines, n) ==
    IF n = 0 THEN EmptyDict
    ELSE LET rem == RemUpTo(lines, n - 1)
             pid == lines[n].product
             qty == lines[n].quantity
         IN Put(rem, pid, Get(rem, pid, 0) + qty)

RECURSIVE StatesUpTo(_, _)
StatesUpTo(os, n) ==
    IF n = 0 THEN EmptyDict
    ELSE Put(StatesUpTo(os, n - 1), os[n].id,
             RemUpTo(os[n].products, Len(os[n].products)))

build_orders_state == StatesUpTo(instance.orders, Len(instance.orders))

RECURSIVE KeysUpTo(_, _)
\* keys of orders_state in insertion order
KeysUpTo(os, n) ==
    IF n = 0 THEN <<>>
    ELSE LET ks == KeysUpTo(os, n - 1)
         IN IF os[n].id \in Range(ks) THEN ks ELSE Append(ks, os[n].id)

\* an order that tracks no product taken as not done
IsDoneWhenTracked(rem) == rem # EmptyDict /\ \A pid \in DOMAIN rem : rem[pid] <= 0

\* OrderState.is_done
is_done(rem) == \A pid \in DOMAIN rem : rem[pid] <= 0

AllDone(ostate) == \A i \in DOMAIN all_order_ids : is_done(ostate[all_order_ids[i]])

-----------------------------------------------------------------------------
(* Boxes *)

NewBox(bid, oid) ==
    [id |-> bid, order_id |-> oid, weight |-> 0, volume |-> 0, products |-> <<>>]

\* self.products[prod_id] = self.products.get(prod_id, 0) + qty, the dict kept
\* as the list of its items in insertion order
DictAdd(items, prod_id, qty) ==
    IF \E i \in DOMAIN items : items[i].product_id = prod_id
    THEN [i \in DOMAIN items |->
            IF items[i].product_id = prod_id
            THEN [items[i] EXCEPT !.quantity = @ + qty]
            ELSE items[i]]
    ELSE Append(items, [product_id |-> prod_id, quantity |-> qty])

\* the quantity forgotten in the weight of the box
BoxAddUnitWeight(b, prod_w, prod_v, prod_id, qty) ==
    [b EXCEPT !.weight = @ + prod_w,
              !.volume = @ + prod_v * qty,
              !.products = DictAdd(@, prod_id, qty)]

\* BoxState.add
BoxAdd(b, prod_w, prod_v, prod_id, qty) ==
    [b EXCEPT !.weight = @ + prod_w * qty,
              !.volume = @ + prod_v * qty,
              !.products = DictAdd(@, prod_id, qty)]

\* a box counted as empty when it weighs nothing
IsWeightlessBox(b) == b.weight = 0

\* `if not b.products`
IsEmptyBox(b) == b.products = <<>>

\* by_w / by_v: units admitted by one dimension, dflt when the unit size is 0
ByDim(remain, per, dflt) == IF per > 0 THEN remain \div Max(1, per) ELSE dflt

\* the volume bound forgotten
CanAddIgnoringVolume(qty_left, by_w, by_v) == Min(qty_left, by_w)

\* the quantity still wanted forgotten
CanAddWholeRoom(qty_left, by_w, by_v) == Min(by_w, by_v)

\* one unit per box and call
CanAddOneUnit(qty_left, by_w, by_v) == Min(1, Min3(qty_left, by_w, by_v))

\* can_add = min(qty_wanted - placed, by_w, by_v)
CanAdd(qty_left, by_w, by_v) == Min3(qty_left, by_w, by_v)

\* off by one on the trolley limit
MayOpenNewBoxUpToK(placed, qty_wanted, nb_open) == placed < qty_wanted /\ nb_open <= K

\* condition of the box-opening loop of can_place_in_any_box
MayOpenNewBox(placed, qty_wanted, nb_open) == placed < qty_wanted /\ nb_open < K

RECURSIVE PlaceExisting(_, _, _, _, _, _)
\* the loop over order_to_boxes.get(oid, []) of can_place_in_any_box, from
\* position i of that list; returned tells that the function returned inside
PlaceExisting(bxs, lst, i, prod_id, qty_wanted, placed) ==
    IF i > Len(lst)
    THEN [boxes |-> bxs, placed |-> placed, returned |-> FALSE]
    ELSE LET b == bxs[lst[i]]
             per_w == prods[prod_id].w
             per_v == prods[prod_id].v
             remain_w == Max(0, max_w - b.weight)
             remain_v == Max(0, max_v - b.volume)
             by_w == ByDim(remain_w, per_w, qty_wanted)
             by_v == ByDim(remain_v, per_v, qty_wanted)
             can_add == CanAdd(qty_wanted - placed, by_w, by_v)
             bxs2 == IF can_add > 0
                     THEN [bxs EXCEPT ![lst[i]] = BoxAdd(b, per_w, per_v, prod_id, can_add)]
                     ELSE bxs
             placed2 == IF can_add > 0 THEN placed + can_add ELSE placed
         IN IF placed2 >= qty_wanted
            THEN [boxes |-> bxs2, placed |-> placed2, returned |-> TRUE]
            ELSE PlaceExisting(bxs2, lst, i + 1, prod_id, qty_wanted, placed2)

RECURSIVE OpenNew(_, _, _, _)
\* the box-opening loop of can_place_in_any_box; t carries boxes,
\* order_to_boxes, global_box_id and placed
OpenNew(t, oid, prod_id, qty_wanted) ==
    IF ~MayOpenNewBox(t.placed, qty_wanted, Len(t.boxes))
    THEN t
    ELSE LET per_w == prods[prod_id].w
             per_v == prods[prod_id].v
             new_b == NewBox(t.global_box_id, oid)
             pos == Len(t.boxes) + 1
             otb == Put(t.order_to_boxes, oid,
                        Append(Get(t.order_to_boxes, oid, <<>>), pos))
             by_w == ByDim(max_w, per_w, qty_wanted)
             by_v == ByDim(max_v, per_v, qty_wanted)
             can_add == CanAdd(qty_wanted - t.placed, by_w, by_v)
             opened == [boxes |-> Append(t.boxes, new_b),
                        order_to_boxes |-> otb,
                        global_box_id |-> t.global_box_id + 1,
                        placed |-> t.placed]
         IN IF can_add <= 0
            THEN opened
            ELSE OpenNew([opened EXCEPT
                            !.boxes[pos] = BoxAdd(new_b, per_w, per_v, prod_id, can_add),
                            !.placed = @ + can_add],
                         oid, prod_id, qty_wanted)

\* can_place_in_any_box(oid, prod_id, qty_wanted) on the tour context t
can_place_in_any_box(t, oid, prod_id, qty_wanted) ==
    LET e == PlaceExisting(t.boxes, Get(t.order_to_boxes, oid, <<>>), 1,
                           prod_id, qty_wanted, 0)
        t2 == [boxes |-> e.boxes, order_to_boxes |-> t.order_to_boxes,
               global_box_id |-> t.global_box_id, placed |-> e.placed]
    IN IF e.returned THEN t2 ELSE OpenNew(t2, oid, prod_id, qty_wanted)

RECURSIVE ExistingRoomByWeight(_, _, _, _)
\* the room of the order's boxes judged by weight alone
ExistingRoomByWeight(bxs, lst, i, prod_id) ==
    IF i > Len(lst) THEN 0
    ELSE LET remain_w == Max(0, max_w - bxs[lst[i]].weight)
         IN Max(0, ByDim(remain_w, prods[prod_id].w, Unbounded))
               + ExistingRoomByWeight(bxs, lst, i + 1, prod_id)

RECURSIVE ExistingRoom(_, _, _, _)
\* the sum over the order's boxes in can_placeable_units
ExistingRoom(bxs, lst, i, prod_id) ==
    IF i > Len(lst) THEN 0
    ELSE LET b == bxs[lst[i]]
             remain_w == Max(0, max_w - b.weight)
             remain_v == Max(0, max_v - b.volume)
             by_w == ByDim(remain_w, prods[prod_id].w, Unbounded)
             by_v == ByDim(remain_v, prods[prod_id].v, Unbounded)
         IN Max(0, Min(by_w, by_v)) + ExistingRoom(bxs, lst, i + 1, prod_id)

\* the room of the order's open boxes only, the free slots of the trolley not
\* counted
PlaceableInOpenBoxesOnly(bxs, otb, oid, prod_id) ==
    ExistingRoom(bxs, Get(otb, oid, <<>>), 1, prod_id)

\* can_placeable_units(oid, prod_id)
can_placeable_units(bxs, otb, oid, prod_id) ==
    LET total == ExistingRoom(bxs, Get(otb, oid, <<>>), 1, prod_id)
        available_slots == Max(0, K - Len(bxs))
        by_w == ByDim(max_w, prods[prod_id].w, Unbounded)
        by_v == ByDim(max_v, prods[prod_id].v, Unbounded)
        cap == Max(0, Min(by_w, by_v))
    IN IF available_slots > 0 THEN total + available_slots * cap ELSE total

-----------------------------------------------------------------------------
(* One iteration of the Visiting loop *)

\* needed: products with positive remaining quantity in an active order
Needed(ostate, act) ==
    UNION { {pid \in DOMAIN ostate[act[i]] : ostate[act[i]][pid] > 0} :
            i \in {j \in DOMAIN act : ~is_done(ostate[act[j]])} }

RECURSIVE TotalPlaceable(_, _, _, _, _, _)
\* total_placeable of one needed product, summed over the active orders
TotalPlaceable(ostate, act, i, bxs, otb, pid) ==
    IF i > Len(act) THEN 0
    ELSE LET qty_need == Get(ostate[act[i]], pid, 0)
             here == IF qty_need > 0
                     THEN Min(qty_need, can_placeable_units(bxs, otb, act[i], pid))
                     ELSE 0
         IN here + TotalPlaceable(ostate, act, i + 1, bxs, otb, pid)

Placeable(ostate, act, bxs, otb) ==
    {pid \in Needed(ostate, act) : TotalPlaceable(ostate, act, 1, bxs, otb, pid) > 0}

\* the comparison turned round
IsFarther(d, best_d) == best_d = None \/ d > best_d

\* `best_d is None or d < best_d`
IsNearer(d, best_d) == best_d = None \/ d < best_d

RECURSIVE NearestFrom(_, _, _, _, _)
\* the loop of next_nearest_product over the candidates in iteration order
NearestFrom(loc_from, cands, i, best_pid, best_d) ==
    IF i > Len(cands) THEN best_pid
    ELSE LET d == dist(loc_from, prods[cands[i]].id_loc)
         IN IF d = None
            THEN NearestFrom(loc_from, cands, i + 1, best_pid, best_d)
            ELSE IF IsNearer(d, best_d)
                 THEN NearestFrom(loc_from, cands, i + 1, cands[i], d)
                 ELSE NearestFrom(loc_from, cands, i + 1, best_pid, best_d)

next_nearest_product(loc_from, candidate_products) ==
    IF candidate_products = {} THEN None
    ELSE NearestFrom(loc_from, SetIterOrder(candidate_products), 1, None, None)

\* orders_state[oid].remaining[nxt] -= placed
Decrement(ostate, oid, nxt, placed) == [ostate EXCEPT ![oid][nxt] = @ - placed]

RECURSIVE FillOrders(_, _, _, _)
\* the loop over active_orders that fills the boxes at product nxt; t carries
\* boxes, order_to_boxes, global_box_id, orders_state and progress
FillOrders(t, act, i, nxt) ==
    IF i > Len(act) THEN t
    ELSE LET oid == act[i]
             qty_need == Get(t.orders_state[oid], nxt, 0)
         IN IF qty_need <= 0
            THEN FillOrders(t, act, i + 1, nxt)
            ELSE LET r == can_place_in_any_box(
                              [boxes |-> t.boxes,
                               order_to_boxes |-> t.order_to_boxes,
                               global_box_id |-> t.global_box_id],
                              oid, nxt, qty_need)
                 IN FillOrders(
                        [boxes |-> r.boxes,
                         order_to_boxes |-> r.order_to_boxes,
                         global_box_id |-> r.global_box_id,
                         orders_state |-> IF r.placed > 0
                                          THEN Decrement(t.orders_state, oid, nxt, r.placed)
                                          ELSE t.orders_state,
                         progress |-> IF r.placed > 0
                                      THEN t.progress + r.placed
                                      ELSE t.progress],
                        act, i + 1, nxt)

-----------------------------------------------------------------------------
(* Order activation *)

\* the scan keeping the last order that is not done
LastNotDone(ostate, ids) ==
    IF \E i \in DOMAIN ids : ~is_done(ostate[ids[i]])
    THEN CHOOSE i \in DOMAIN ids :
            /\ ~is_done(ostate[ids[i]])
            /\ \A j \in (i + 1)..Len(ids) : is_done(ostate[ids[j]])
    ELSE 0

\* the first order of the scan that is not done, 0 if there is none
FirstNotDone(ostate, ids) ==
    IF \E i \in DOMAIN ids : ~is_done(ostate[ids[i]])
    THEN CHOOSE i \in DOMAIN ids :
            /\ ~is_done(ostate[ids[i]])
            /\ \A j \in 1..(i - 1) : is_done(ostate[ids[j]])
    ELSE 0

\* the order activated is the last of the scan that is not done
ActivateOneFromTheEnd(ostate, ids, gbid) ==
    LET i == LastNotDone(ostate, ids)
    IN IF i = 0
       THEN [active_orders |-> <<>>, boxes |-> <<>>, global_box_id |-> gbid]
       ELSE [active_orders |-> <<ids[i]>>,
             boxes |-> <<NewBox(gbid, ids[i])>>,
             global_box_id |-> gbid + 1]

\* the box-identifier counter left as it is after the initial box
ActivateOneKeepingCounter(ostate, ids, gbid) ==
    LET i == FirstNotDone(ostate, ids)
    IN IF i = 0
       THEN [active_orders |-> <<>>, boxes |-> <<>>, global_box_id |-> gbid]
       ELSE [active_orders |-> <<ids[i]>>,
             boxes |-> <<NewBox(gbid, ids[i])>>,
             global_box_id |-> gbid]

\* non-mixed policy: one order per tour
ActivateOne(ostate, ids, gbid) ==
    LET i == FirstNotDone(ostate, ids)
    IN IF i = 0
       THEN [active_orders |-> <<>>, boxes |-> <<>>, global_box_id |-> gbid]
       ELSE [active_orders |-> <<ids[i]>>,
             boxes |-> <<NewBox(gbid, ids[i])>>,
             global_box_id |-> gbid + 1]

\* the trolley taken as full one box too late
TrolleyFullAfterK(nb_open) == nb_open > K

\* `if len(boxes) >= K: break`
TrolleyFull(nb_open) == nb_open >= K

RECURSIVE ActivateMixed(_, _, _, _)
\* mixed policy: one initial box per not-done order, up to K boxes
ActivateMixed(t, ostate, ids, i) ==
    IF i > Len(ids) \/ TrolleyFull(Len(t.boxes)) THEN t
    ELSE IF ~is_done(ostate[ids[i]])
         THEN ActivateMixed(
                  [active_orders |-> Append(t.active_orders, ids[i]),
                   boxes |-> Append(t.boxes, NewBox(t.global_box_id, ids[i])),
                   global_box_id |-> t.global_box_id + 1],
                  ostate, ids, i + 1)
         ELSE ActivateMixed(t, ostate, ids, i + 1)

\* key of a box in order_to_boxes: b.order_id or -1
BoxKey(b) == OrDefault(b.order_id)

RECURSIVE BuildOrderToBoxes(_, _)
\* order_to_boxes.setdefault(b.order_id or -1, []).append(b) for b in boxes
BuildOrderToBoxes(bxs, n) ==
    IF n = 0 THEN EmptyDict
    ELSE LET otb == BuildOrderToBoxes(bxs, n - 1)
             key == BoxKey(bxs[n])
         IN Put(otb, key, Append(Get(otb, key, <<>>), n))

Activate ==
    /\ UNCHANGED other_vars
    /\ pc = "loop"
    /\ AllDone(orders_state) \/ global_box_id <= MaxBoxId
    /\ IF AllDone(orders_state)
       THEN /\ pc' = "output"
            /\ UNCHANGED <<active_orders, boxes, global_box_id, order_to_boxes,
                           current_loc, travelled, crossed_locations>>
       ELSE \E a \in {IF ~instance.mixed_orders_allowed
                      THEN ActivateOne(orders_state, all_order_ids, global_box_id)
                      ELSE ActivateMixed(
                               [active_orders |-> <<>>, boxes |-> <<>>,
                                global_box_id |-> global_box_id],
                               orders_state, all_order_ids, 1)} :
               /\ active_orders' = a.active_orders
               /\ boxes' = a.boxes
               /\ global_box_id' = a.global_box_id
               /\ IF a.active_orders = <<>>
                  THEN /\ pc' = "output"
                       /\ UNCHANGED <<order_to_boxes, current_loc, travelled,
                                      crossed_locations>>
                  ELSE /\ pc' = "visit"
                       /\ current_loc' = start_loc
                       /\ travelled' = 0
                       /\ crossed_locations' = 0
                       /\ order_to_boxes' = BuildOrderToBoxes(a.boxes, Len(a.boxes))
    /\ UNCHANGED <<instance, orders_state, all_order_ids, tours_out,
                   orders_out_map, tour_id, total_travelled_distance,
                   total_crossed_locations, out>>

-----------------------------------------------------------------------------
(* Visiting, returning *)

\* one iteration of the Visiting loop; needed, placeable, nxt and the outcome
\* of the filling loop are each computed once
Visit ==
    /\ UNCHANGED other_vars
    /\ pc = "visit"
    /\ \E needed \in {Needed(orders_state, active_orders)} :
       \E placeable \in {Placeable(orders_state, active_orders, boxes, order_to_boxes)} :
       \E nxt \in {next_nearest_product(current_loc, placeable)} :
       \E dstep \in {IF nxt = None THEN None ELSE dist(current_loc, prods[nxt].id_loc)} :
          IF needed = {} \/ placeable = {} \/ nxt = None \/ dstep = None
          THEN /\ pc' = "return"
               /\ UNCHANGED <<orders_state, boxes, order_to_boxes, global_box_id,
                              current_loc, travelled, crossed_locations>>
          ELSE \E f \in {FillOrders([boxes |-> boxes,
                                     order_to_boxes |-> order_to_boxes,
                                     global_box_id |-> global_box_id,
                                     orders_state |-> orders_state,
                                     progress |-> 0],
                                    active_orders, 1, nxt)} :
                  /\ travelled' = travelled + dstep
                  /\ current_loc' = prods[nxt].id_loc
                  /\ crossed_locations' = crossed_locations + 1
                  /\ boxes' = f.boxes
                  /\ order_to_boxes' = f.order_to_boxes
                  /\ global_box_id' = f.global_box_id
                  /\ orders_state' = f.orders_state
                  /\ pc' = IF f.progress = 0 THEN "return" ELSE "visit"
    /\ UNCHANGED <<instance, all_order_ids, tours_out, orders_out_map, tour_id,
                   total_travelled_distance, total_crossed_locations,
                   active_orders, out>>

\* the return step taken only from a location other than the arrival depot
ReturnAwayFromDepotOnly ==
    /\ UNCHANGED other_vars
    /\ pc = "return"
    /\ LET dend == dist(current_loc, end_loc)
       IN IF current_loc # end_loc /\ dend # None
          THEN /\ travelled' = travelled + dend
               /\ crossed_locations' = crossed_locations + 1
          ELSE UNCHANGED <<travelled, crossed_locations>>
    /\ pc' = "finalize"
    /\ UNCHANGED <<instance, orders_state, all_order_ids, tours_out,
                   orders_out_map, tour_id, global_box_id,
                   total_travelled_distance, total_crossed_locations,
                   active_orders, boxes, order_to_boxes, current_loc, out>>

Return ==
    /\ UNCHANGED other_vars
    /\ pc = "return"
    /\ LET dend == dist(current_loc, end_loc)
       IN IF current_loc # None /\ end_loc # None /\ dend # None
          THEN /\ travelled' = travelled + dend
               /\ crossed_locations' = crossed_locations + 1
          ELSE UNCHANGED <<travelled, crossed_locations>>
    /\ pc' = "finalize"
    /\ UNCHANGED <<instance, orders_state, all_order_ids, tours_out,
                   orders_out_map, tour_id, global_box_id,
                   total_travelled_distance, total_crossed_locations,
                   active_orders, boxes, order_to_boxes, current_loc, out>>

-----------------------------------------------------------------------------
(* Materialising a tour *)

\* Boxe(id, order_id = b.order_id or -1, weight, volume, boxe_products)
BoxeOf(b) ==
    [id |-> b.id, order_id |-> OrDefault(b.order_id), weight |-> b.weight,
     volume |-> b.volume, boxe_products |-> b.products]

\* every box of the tour, the empty ones included
AllBoxesOut(bxs, n) == [i \in 1..n |-> BoxeOf(bxs[i])]

RECURSIVE BoxesOut(_, _)
\* boxes_out: the non-empty boxes of the tour, in creation order
BoxesOut(bxs, n) ==
    IF n = 0 THEN <<>>
    ELSE IF IsEmptyBox(bxs[n])
         THEN BoxesOut(bxs, n - 1)
         ELSE Append(BoxesOut(bxs, n - 1), BoxeOf(bxs[n]))

RECURSIVE PerOrderNew(_, _)
\* per_order_new: boxes of the tour per reported order id
PerOrderNew(bo, n) ==
    IF n = 0 THEN EmptyDict
    ELSE LET c == PerOrderNew(bo, n - 1)
         IN Put(c, bo[n].order_id, Get(c, bo[n].order_id, 0) + 1)

\* orders_out_map[oid] = orders_out_map.get(oid, 0) + cnt, for every new count
AddCounts(m, new) ==
    [oid \in DOMAIN m \cup DOMAIN new |-> Get(m, oid, 0) + Get(new, oid, 0)]

\* a tour identifier consumed by every tour, emitted or not
NextTourIdAlways(tid, bo) == tid + 1

\* tour_id after a tour that emitted boxes_out
NextTourId(tid, bo) == IF bo # <<>> THEN tid + 1 ELSE tid

Finalize ==
    /\ UNCHANGED other_vars
    /\ pc = "finalize"
    /\ \E boxes_out \in {BoxesOut(boxes, Len(boxes))} :
          /\ tour_id' = NextTourId(tour_id, boxes_out)
          /\ IF boxes_out # <<>>
             THEN /\ orders_out_map' =
                        AddCounts(orders_out_map, PerOrderNew(boxes_out, Len(boxes_out)))
                  /\ tours_out' = Append(tours_out, [id |-> tour_id, boxes |-> boxes_out])
                  /\ total_travelled_distance' = total_travelled_distance + travelled
                  /\ total_crossed_locations' = total_crossed_locations + crossed_locations
             ELSE UNCHANGED <<orders_out_map, tours_out, total_travelled_distance,
                              total_crossed_locations>>
    /\ pc' = "loop"
    /\ UNCHANGED <<instance, orders_state, all_order_ids, global_box_id,
                   active_orders, boxes, order_to_boxes, current_loc, travelled,
                   crossed_locations, out>>

-----------------------------------------------------------------------------
(* The result structure *)

RECURSIVE AllBoxes(_, _)
\* [b for t in tours_out for b in t.boxes]
AllBoxes(ts, n) == IF n = 0 THEN <<>> ELSE AllBoxes(ts, n - 1) \o ts[n].boxes

RECURSIVE SumWeight(_, _)
SumWeight(bs, n) == IF n = 0 THEN 0 ELSE SumWeight(bs, n - 1) + bs[n].weight

RECURSIVE SumVolume(_, _)
SumVolume(bs, n) == IF n = 0 THEN 0 ELSE SumVolume(bs, n - 1) + bs[n].volume

\* the quotient cut off instead of rounded
PyTruncate(a, b) == a \div b

\* int(round(a / b)) for a >= 0, b > 0: Python rounds halves to the even integer
PyRound(a, b) ==
    LET q == a \div b
        r == a % b
    IN IF 2 * r < b THEN q
       ELSE IF 2 * r > b THEN q + 1
       ELSE IF q % 2 = 0 THEN q ELSE q + 1

\* avg_weight / avg_volume
AvgFill(total, nb, capacity) ==
    IF nb = 0 THEN 0 ELSE PyRound(total * 100, nb * Max(1, capacity))

\* orders_out: one entry per key of orders_out_map, sorted
OrdersOut(m) ==
    LET ks == SortedKeys(m)
    IN [i \in DOMAIN ks |-> [id |-> ks[i], nbr_boxes |-> Get(m, ks[i], 0)]]

NoOutput ==
    [travelled_distance |-> 0, crossed_locations |-> 0, avg_weight |-> 0,
     avg_volume |-> 0, tours |-> <<>>, orders |-> <<>>]

Output ==
    /\ UNCHANGED other_vars
    /\ pc = "output"
    /\ \E all_boxes \in {AllBoxes(tours_out, Len(tours_out))} :
          out' = [travelled_distance |-> total_travelled_distance,
                  crossed_locations |-> total_crossed_locations,
                  avg_weight |-> AvgFill(SumWeight(all_boxes, Len(all_boxes)),
                                         Len(all_boxes), max_w),
                  avg_volume |-> AvgFill(SumVolume(all_boxes, Len(all_boxes)),
                                         Len(all_boxes), max_v),
                  tours |-> tours_out,
                  orders |-> OrdersOut(orders_out_map)]
    /\ pc' = "done"
    /\ UNCHANGED <<instance, orders_state, all_order_ids, tours_out,
                   orders_out_map, tour_id, global_box_id,
                   total_travelled_distance, total_crossed_locations,
                   active_orders, boxes, order_to_boxes, current_loc, travelled,
                   crossed_locations>>

-----------------------------------------------------------------------------
(* Explored instances *)

Product(id, loc, w, v) == [id |-> id, id_loc |-> loc, w |-> w, v |-> v]

Line(pid, q) == [product |-> pid, quantity |-> q]

Order(id, lines) == [id |-> id, products |-> lines]

Path(a, b, d) == [idDeparture |-> a, idArrival |-> b, distance |-> d]

UnitSizes == {0, 1, MaxUnit}

Quantities == {1, MaxQty}

TrolleySizes == {1, MaxK}

\* product 1 at location 1, product 2 at location 2
ProductLists ==
    { <<Product(1, 1, w, v), Product(2, 2, s[1], s[2])>> :
        w \in UnitSizes, v \in UnitSizes, s \in {<<1, 1>>, <<MaxUnit, 0>>} }

CapaBoxes == { <<cw, MaxCapa - 1>> : cw \in {1, MaxCapa} }

OneOrderLines ==
    UNION { { <<Line(1, q)>>, <<Line(1, q), Line(2, 1)>>, <<Line(1, 1), Line(1, q)>> } :
            q \in Quantities }

FirstOrderLines ==
    UNION { { <<Line(1, q)>>, <<Line(1, q), Line(2, 1)>> } : q \in Quantities }

SecondOrderLines == { <<Line(1, 1)>> } \cup { <<Line(2, q)>> : q \in Quantities }

OrderLists ==
    { <<Order(id, ls)>> : id \in {0, 1}, ls \in OneOrderLines }
    \cup
    { <<Order(ids[1], l1), Order(ids[2], l2)>> :
        ids \in {<<2, 1>>, <<0, 1>>, <<1, 0>>},
        l1 \in FirstOrderLines, l2 \in SecondOrderLines }

\* depot at location 0; location 2 may be cut off from the depot, from
\* location 1, or from both
PathTables ==
    { <<Path(0, 1, 1), Path(0, 2, d), Path(1, 2, 1)>> : d \in {1, MaxDist} }
    \cup
    { <<Path(0, 1, 1), Path(0, 2, MaxDist)>>,
      <<Path(0, 1, 1), Path(1, 2, 1)>>,
      <<Path(0, 1, 1)>> }

Instances ==
    { [nb_boxes_trolley |-> nb, capa_box |-> cb, mixed_orders_allowed |-> mx,
       products |-> ps, orders |-> os,
       graph |-> [departing_depot |-> 0, arrival_depot |-> 0,
                  shortest_distances |-> tbl]] :
        nb \in TrolleySizes, cb \in CapaBoxes, mx \in BOOLEAN,
        ps \in ProductLists, os \in OrderLists, tbl \in PathTables }

\* Unbounded * K has to stay a 32-bit integer for the model checker
Checkable(inst) ==
    inst.nb_boxes_trolley <= 2
    \/ \A i \in DOMAIN inst.products :
          inst.products[i].w > 0 \/ inst.products[i].v > 0

ExploredInstances == {inst \in Instances : Checkable(inst)}

\* nothing written, no knowledge source registered, no packing and no
\* batching under way
NoSolutions == [made |-> FALSE, files |-> <<>>]

ControllerIdle ==
    /\ knowledge_sources = <<>>
    /\ ks_index = 0
    /\ calls = <<>>

PackingIdle ==
    /\ manager = None
    /\ max_boxes = 0
    /\ remaining_items = <<>>
    /\ order_boxes = <<>>
    /\ box = None

BatchingIdle ==
    /\ batch = None
    /\ remaining_boxes = <<>>
    /\ trolleys = <<>>
    /\ trolley = None

OtherProgramsIdle ==
    /\ solutions = NoSolutions
    /\ ControllerIdle
    /\ PackingIdle
    /\ BatchingIdle

\* the state of solve_instance when it enters the run loop
RunStart ==
    /\ orders_state = build_orders_state
    /\ all_order_ids = KeysUpTo(instance.orders, Len(instance.orders))
    /\ tours_out = <<>>
    /\ orders_out_map = EmptyDict
    /\ tour_id = 1
    /\ global_box_id = 1
    /\ total_travelled_distance = 0
    /\ total_crossed_locations = 0
    /\ active_orders = <<>>
    /\ boxes = <<>>
    /\ order_to_boxes = EmptyDict
    /\ current_loc = start_loc
    /\ travelled = 0
    /\ crossed_locations = 0
    /\ out = NoOutput
    /\ pc = "loop"
    /\ OtherProgramsIdle

Init ==
    /\ instance \in ExploredInstances
    /\ RunStart

Next == Activate \/ Visit \/ Return \/ Finalize \/ Output

Spec == Init /\ [][Next]_vars

\* instances whose order identifiers are all positive
InitPositiveIds ==
    /\ instance \in {inst \in ExploredInstances :
                        \A i \in DOMAIN inst.orders : inst.orders[i].id > 0}
    /\ RunStart

SpecPositiveIds == InitPositiveIds /\ [][Next]_vars

\* instances in which every product fits into an empty box and every
\* location is at a known distance from every other
CompletableInstances ==
    { [nb_boxes_trolley |-> nb, capa_box |-> <<MaxCapa, MaxCapa>>,
       mixed_orders_allowed |-> mx,
       products |-> <<Product(1, 1, 1, 1), Product(2, 2, MaxUnit, 1)>>,
       orders |-> os,
       graph |-> [departing_depot |-> 0, arrival_depot |-> 0,
                  shortest_distances |->
                      <<Path(0, 1, 1), Path(0, 2, MaxDist), Path(1, 2, 1)>>]] :
        nb \in TrolleySizes, mx \in BOOLEAN,
        os \in { <<Order(id, <<Line(1, MaxQty), Line(2, 1)>>)>> : id \in {0, 1} }
               \cup
               { <<Order(ids[1], <<Line(1, MaxQty)>>), Order(ids[2], <<Line(2, MaxQty)>>)>> :
                   ids \in {<<2, 1>>, <<0, 1>>, <<1, 0>>} } }

InitCompletable ==
    /\ instance \in CompletableInstances
    /\ RunStart

\* the run is one sequential program: it always takes its next step
FairSpec == InitCompletable /\ [][Next]_vars /\ WF_vars(Next)

\* ceil(a / b) for a >= 0, b > 0
CeilDiv(a, b) == (a + b - 1) \div b

\* a trolley of one box, one order of q units of a product of unit weight 1
\* and no volume, box weight capacity cw
OneBoxInstances ==
    { inst \in
        { [nb_boxes_trolley |-> 1, capa_box |-> <<cw, 1>>,
           mixed_orders_allowed |-> mx,
           products |-> <<Product(1, 1, 1, 0)>>,
           orders |-> <<Order(id, <<Line(1, q)>>)>>,
           graph |-> [departing_depot |-> 0, arrival_depot |-> 0,
                      shortest_distances |-> <<Path(0, 1, 1)>>]] :
            id \in {0, 1}, q \in 1..MaxDemand, cw \in 1..MaxBoxWeight,
            mx \in BOOLEAN } :
        CeilDiv(inst.orders[1].products[1].quantity, inst.capa_box[1]) < MaxBoxId }

InitOneBox ==
    /\ instance \in OneBoxInstances
    /\ RunStart

FairSpecOneBox == InitOneBox /\ [][Next]_vars /\ WF_vars(Next)

\* Scenario A: products (w=1, v=1) and (w=5, v=5), box capacity (10, 10),
\* six boxes on the trolley (given, or by default), one order of 3 units of
\* the first product and 1 of the second; either product may be the nearer
ScenarioAInstances ==
    { [nb_boxes_trolley |-> nb, capa_box |-> <<10, 10>>,
       mixed_orders_allowed |-> mx,
       products |-> <<Product(1, 1, 1, 1), Product(2, 2, 5, 5)>>,
       orders |-> <<Order(id, ls)>>,
       graph |-> [departing_depot |-> 0, arrival_depot |-> 0,
                  shortest_distances |->
                      <<Path(0, 1, d1), Path(0, 2, d2), Path(1, 2, 1)>>]] :
        nb \in {0, 6}, mx \in BOOLEAN, id \in {0, 1},
        ls \in { <<Line(1, 3), Line(2, 1)>>, <<Line(2, 1), Line(1, 3)>>,
                 <<Line(1, 1), Line(2, 1), Line(1, 2)>> },
        d1 \in 1..MaxDist, d2 \in 1..MaxDist }

InitScenarioA ==
    /\ instance \in ScenarioAInstances
    /\ RunStart

SpecScenarioA == InitScenarioA /\ [][Next]_vars

\* order lines that ask for nothing
IdleLines == { <<>>, <<Line(1, 0)>>, <<Line(1, 0), Line(2, 0)>> }

\* instances in which some order asks for nothing, alone or next to an order
\* with a demand
IdleOrderInstances ==
    { [nb_boxes_trolley |-> nb, capa_box |-> <<MaxCapa, MaxCapa - 1>>,
       mixed_orders_allowed |-> mx,
       products |-> <<Product(1, 1, 1, 1), Product(2, 2, MaxUnit, 0)>>,
       orders |-> os,
       graph |-> [departing_depot |-> 0, arrival_depot |-> 0,
                  shortest_distances |->
                      <<Path(0, 1, 1), Path(0, 2, MaxDist), Path(1, 2, 1)>>]] :
        nb \in TrolleySizes, mx \in BOOLEAN,
        os \in { <<Order(id, ls)>> : id \in {0, 1}, ls \in IdleLines }
               \cup
               { <<Order(ids[1], ls[1]), Order(ids[2], ls[2])>> :
                   ids \in {<<1, 2>>, <<2, 1>>, <<0, 1>>, <<1, 0>>},
                   ls \in (IdleLines \X FirstOrderLines)
                          \cup (FirstOrderLines \X IdleLines)
                          \cup (IdleLines \X IdleLines) } }

InitIdleOrders ==
    /\ instance \in IdleOrderInstances
    /\ RunStart

SpecIdleOrders == InitIdleOrders /\ [][Next]_vars

\* an entry of the shortest-path table between any two of the locations 0, 1
\* and 2, a location and itself included
AnyPath == { Path(a, b, d) : a \in 0..2, b \in 0..2, d \in {1, MaxDist} }

RECURSIVE TablesOfLength(_)
TablesOfLength(n) ==
    IF n = 0 THEN { <<>> }
    ELSE { Append(t, e) : t \in TablesOfLength(n - 1), e \in AnyPath }

\* any table of at most MaxPaths entries: pairs may be missing, listed twice,
\* or listed in both directions with different distances
AnyTableInstances ==
    { [nb_boxes_trolley |-> MaxK, capa_box |-> <<MaxCapa, MaxCapa - 1>>,
       mixed_orders_allowed |-> mx,
       products |-> <<Product(1, 1, 1, 1), Product(2, 2, MaxUnit, 0)>>,
       orders |-> <<Order(1, <<Line(1, 1), Line(2, 1)>>)>>,
       graph |-> [departing_depot |-> 0, arrival_depot |-> 0,
                  shortest_distances |-> tbl]] :
        mx \in BOOLEAN, tbl \in UNION { TablesOfLength(n) : n \in 0..MaxPaths } }

InitAnyTable ==
    /\ instance \in AnyTableInstances
    /\ RunStart

SpecAnyTable == InitAnyTable /\ [][Next]_vars

\* routes: the arrival depot is the departing depot or location 2, the first
\* product lies at the departing depot or at location 1, the second at
\* location 2; pairs of locations may be missing from the table
RouteInstances ==
    { [nb_boxes_trolley |-> nb, capa_box |-> <<MaxCapa, MaxCapa>>,
       mixed_orders_allowed |-> mx,
       products |-> <<Product(1, l1, 1, 1), Product(2, 2, MaxUnit, 1)>>,
       orders |-> os,
       graph |-> [departing_depot |-> 0, arrival_depot |-> e,
                  shortest_distances |-> tbl]] :
        nb \in TrolleySizes, mx \in BOOLEAN, l1 \in {0, 1}, e \in {0, 2},
        os \in { <<Order(1, ls)>> : ls \in OneOrderLines }
               \cup
               { <<Order(2, <<Line(1, MaxQty)>>), Order(1, <<Line(2, 1)>>)>> },
        tbl \in PathTables }

InitRoutes ==
    /\ instance \in RouteInstances
    /\ RunStart

SpecRoutes == InitRoutes /\ [][Next]_vars

-----------------------------------------------------------------------------
(* From the parsed file to the run loop: the product lookup of the reader and
   the construction of the order state *)

\* the record the reader attaches to an order line whose product is not in
\* the product list
ProductNotFound(prod_idx) == [idx |-> prod_idx, error |-> "Product not found"]

\* next((p for p in self.products if p['id'] == prod_idx), None), replaced by
\* the error record when there is none
ProductInfo(ps, prod_idx) ==
    IF \E i \in DOMAIN ps : ps[i].id = prod_idx
    THEN ps[CHOOSE i \in DOMAIN ps :
                /\ ps[i].id = prod_idx
                /\ \A j \in 1..(i - 1) : ps[j].id # prod_idx]
    ELSE ProductNotFound(prod_idx)

\* p["product"]["id"] raises KeyError for some line of some order
RaisesKeyError ==
    \E i \in DOMAIN instance.orders :
        \E j \in DOMAIN instance.orders[i].products :
            "id" \notin DOMAIN ProductInfo(instance.products,
                                           instance.orders[i].products[j].product)

\* the order state is built; the exception of a failed lookup is caught
\* nowhere and ends the run without a result
BuildOrdersState ==
    /\ UNCHANGED other_vars
    /\ pc = "build"
    /\ IF RaisesKeyError
       THEN /\ pc' = "failed"
            /\ UNCHANGED <<orders_state, all_order_ids>>
       ELSE /\ orders_state' = build_orders_state
            /\ all_order_ids' = KeysUpTo(instance.orders, Len(instance.orders))
            /\ pc' = "loop"
    /\ UNCHANGED <<instance, tours_out, orders_out_map, tour_id, global_box_id,
                   total_travelled_distance, total_crossed_locations,
                   active_orders, boxes, order_to_boxes, current_loc, travelled,
                   crossed_locations, out>>

\* order lists whose lines name product 1, product 2 or the absent product 3
FileOrderLists ==
    { <<Order(1, <<Line(a, q)>>)>> : a \in {1, 3}, q \in Quantities }
    \cup
    { <<Order(1, <<Line(a, q), Line(b, 1)>>)>> :
        a \in {1, 3}, b \in {2, 3}, q \in Quantities }
    \cup
    { <<Order(ids[1], <<Line(a, q)>>), Order(ids[2], <<Line(b, 1)>>)>> :
        ids \in {<<1, 2>>, <<2, 1>>}, a \in {1, 3}, b \in {1, 2, 3},
        q \in Quantities }

FileInstances ==
    { [nb_boxes_trolley |-> nb, capa_box |-> <<MaxCapa, MaxCapa - 1>>,
       mixed_orders_allowed |-> mx,
       products |-> <<Product(1, 1, 1, 1), Product(2, 2, MaxUnit, 0)>>,
       orders |-> os,
       graph |-> [departing_depot |-> 0, arrival_depot |-> 0,
                  shortest_distances |->
                      <<Path(0, 1, 1), Path(0, 2, MaxDist), Path(1, 2, 1)>>]] :
        nb \in TrolleySizes, mx \in BOOLEAN, os \in FileOrderLists }

InitFromFile ==
    /\ instance \in FileInstances
    /\ orders_state = EmptyDict
    /\ all_order_ids = <<>>
    /\ tours_out = <<>>
    /\ orders_out_map = EmptyDict
    /\ tour_id = 1
    /\ global_box_id = 1
    /\ total_travelled_distance = 0
    /\ total_crossed_locations = 0
    /\ active_orders = <<>>
    /\ boxes = <<>>
    /\ order_to_boxes = EmptyDict
    /\ current_loc = start_loc
    /\ travelled = 0
    /\ crossed_locations = 0
    /\ out = NoOutput
    /\ pc = "build"
    /\ OtherProgramsIdle

NextFromFile == BuildOrdersState \/ Next

SpecFromFile == InitFromFile /\ [][NextFromFile]_vars

-----------------------------------------------------------------------------
(* Quantities the properties speak about *)

RECURSIVE SumLines(_, _, _)
\* original demand: the quantities of the order lines naming product pid
SumLines(lines, n, pid) ==
    IF n = 0 THEN 0
    ELSE SumLines(lines, n - 1, pid)
         + (IF lines[n].product = pid THEN lines[n].quantity ELSE 0)

OrderOf(oid) == CHOOSE o \in Range(instance.orders) : o.id = oid

OriginalDemand(oid, pid) ==
    SumLines(OrderOf(oid).products, Len(OrderOf(oid).products), pid)

OrderIds == {instance.orders[i].id : i \in DOMAIN instance.orders}

ProductIds == {instance.products[i].id : i \in DOMAIN instance.products}

RECURSIVE QtyIn(_, _, _)
\* units of product pid in a list of (product, quantity) items
QtyIn(items, n, pid) ==
    IF n = 0 THEN 0
    ELSE QtyIn(items, n - 1, pid)
         + (IF items[n].product_id = pid THEN items[n].quantity ELSE 0)

RECURSIVE OpenUnits(_, _, _, _)
\* units of pid in the boxes of the list bxs opened for order oid
OpenUnits(bxs, n, oid, pid) ==
    IF n = 0 THEN 0
    ELSE OpenUnits(bxs, n - 1, oid, pid)
         + (IF bxs[n].order_id = oid
            THEN QtyIn(bxs[n].products, Len(bxs[n].products), pid)
            ELSE 0)

RECURSIVE EmittedUnits(_, _, _, _)
\* units of pid in the emitted boxes bs reported under the label lbl
EmittedUnits(bs, n, lbl, pid) ==
    IF n = 0 THEN 0
    ELSE EmittedUnits(bs, n - 1, lbl, pid)
         + (IF bs[n].order_id = lbl
            THEN QtyIn(bs[n].boxe_products, Len(bs[n].boxe_products), pid)
            ELSE 0)

EmittedBoxes == AllBoxes(tours_out, Len(tours_out))

\* a tour is under way: its boxes are not yet materialised
TourOpen == pc \in {"visit", "return", "finalize"}

\* units of pid packed for order oid so far; a finalized box of order oid is
\* reported under OrDefault(oid)
Packed(oid, pid) ==
    EmittedUnits(EmittedBoxes, Len(EmittedBoxes), OrDefault(oid), pid)
    + (IF TourOpen THEN OpenUnits(boxes, Len(boxes), oid, pid) ELSE 0)

Demanded == {pid \in ProductIds : \E oid \in OrderIds : OriginalDemand(oid, pid) > 0}

\* one unit of the product fits into an empty box
FitsEmptyBox(pid) == prods[pid].w <= max_w /\ prods[pid].v <= max_v

ReachableFromDepot(pid) == dist(start_loc, prods[pid].id_loc) # None

\* the tour just activated cannot place anything: its first Visit finds no
\* placeable product with a known distance
Stalled ==
    /\ pc = "visit"
    /\ crossed_locations = 0
    /\ next_nearest_product(current_loc,
           Placeable(orders_state, active_orders, boxes, order_to_boxes)) = None

-----------------------------------------------------------------------------
(* Properties *)

\* C1: every box, open or finalized, stays within the weight capacity and
\* the volume capacity of a box.
C1_BoxesWithinCapacity ==
    /\ \A i \in DOMAIN boxes :
          boxes[i].weight <= max_w /\ boxes[i].volume <= max_v
    /\ \A i \in DOMAIN EmittedBoxes :
          EmittedBoxes[i].weight <= max_w /\ EmittedBoxes[i].volume <= max_v

\* a box filled to a capacity while its order still waits for units
C1_Witness ==
    /\ pc = "visit"
    /\ \E i \in DOMAIN boxes :
          /\ boxes[i].weight = max_w \/ boxes[i].volume = max_v
          /\ ~IsEmptyBox(boxes[i])
          /\ ~is_done(orders_state[boxes[i].order_id])

\* C2: an iteration of the run loop that cannot make progress activates no
\* order (and so stops the loop).
C2_StalledIterationActivatesNothing == Stalled => active_orders = <<>>

\* C3: for each order and product, the units packed into the boxes of the
\* order plus the remaining quantity equal the original demand; a run that
\* ends with all orders done has emitted exactly the original demand.
C3_DemandConserved ==
    \A oid \in OrderIds : \A pid \in ProductIds :
        /\ Packed(oid, pid) + Get(orders_state[oid], pid, 0) = OriginalDemand(oid, pid)
        /\ (pc = "done" /\ AllDone(orders_state)) =>
              EmittedUnits(EmittedBoxes, Len(EmittedBoxes), OrDefault(oid), pid)
                  = OriginalDemand(oid, pid)

\* a finished run of at least two tours, all orders done, some order with
\* duplicate lines or several boxes
C3_Witness ==
    /\ pc = "done"
    /\ AllDone(orders_state)
    /\ Len(tours_out) >= 2
    /\ \E oid \in OrderIds : \E pid \in ProductIds : OriginalDemand(oid, pid) >= 2

C5_AtMostKBoxesPerTour == Len(boxes) <= K

\* K boxes are open, one of them opened while packing
C5_Witness ==
    /\ pc = "visit"
    /\ K >= 2
    /\ Len(boxes) = K
    /\ Len(boxes) > Len(active_orders)

\* number of finalized boxes that hold units of order oid
UsedBoxes(oid) ==
    Cardinality({i \in DOMAIN EmittedBoxes : EmittedBoxes[i].order_id = OrDefault(oid)})

\* box count the result reports for order oid
ReportedBoxes(oid) ==
    IF \E i \in DOMAIN out.orders : out.orders[i].id = oid
    THEN (CHOOSE e \in Range(out.orders) : e.id = oid).nbr_boxes
    ELSE 0

\* C6: the result reports, for every order of the instance, the number of
\* finalized boxes used for that order.
C6_ReportedBoxCounts ==
    pc = "done" => \A oid \in OrderIds : ReportedBoxes(oid) = UsedBoxes(oid)

\* C7: a box only receives units placed for the order it was opened for, and
\* a finalized box is reported under the identifier of that order.
C7_BoxBelongsToOneOrder ==
    [][/\ pc = "visit" =>
            \A oid \in OrderIds : \A pid \in ProductIds :
                OpenUnits(boxes', Len(boxes'), oid, pid)
                    - OpenUnits(boxes, Len(boxes), oid, pid)
                = Get(orders_state[oid], pid, 0) - Get(orders_state'[oid], pid, 0)
       /\ pc = "finalize" =>
            \A i \in DOMAIN boxes :
                ~IsEmptyBox(boxes[i]) =>
                    \E e \in Range(tours_out'[Len(tours_out')].boxes) :
                        e.id = boxes[i].id /\ e.order_id = boxes[i].order_id
      ]_vars

\* C8: no remaining quantity is ever negative.
C8_RemainingNonNegative ==
    \A oid \in OrderIds : \A pid \in DOMAIN orders_state[oid] :
        orders_state[oid][pid] >= 0

\* a placement smaller than the request: part of a line is still to pick
C8_Witness ==
    \E oid \in OrderIds : \E pid \in DOMAIN orders_state[oid] :
        /\ orders_state[oid][pid] > 0
        /\ orders_state[oid][pid] < OriginalDemand(oid, pid)

\* C9: every emitted tour has a box, every emitted box a product with a
\* positive quantity, and the emitted tours are numbered 1, 2, 3, ... without
\* a gap, a tour without finalized box taking no number.
C9_EmittedToursNumbered ==
    /\ tour_id = Len(tours_out) + 1
    /\ \A i \in DOMAIN tours_out :
          /\ tours_out[i].id = i
          /\ tours_out[i].boxes # <<>>
          /\ \A j \in DOMAIN tours_out[i].boxes :
                LET bps == tours_out[i].boxes[j].boxe_products
                IN bps # <<>> /\ \A k \in DOMAIN bps : bps[k].quantity > 0

\* a tour that finalized no box has just been discarded after emitted tours
C9_Witness ==
    /\ pc = "loop"
    /\ tours_out # <<>>
    /\ boxes # <<>>
    /\ \A i \in DOMAIN boxes : IsEmptyBox(boxes[i])

\* weight of the original demand of order oid
DemandWeight(oid) ==
    LET ps == SetIterOrder(ProductIds)
        W[i \in 0..Len(ps)] ==
            IF i = 0 THEN 0
            ELSE W[i - 1] + OriginalDemand(oid, ps[i]) * prods[ps[i]].w
    IN W[Len(ps)]

\* boxes an order needs when only the weight capacity limits a box and every
\* unit weighs 1
BoxesNeeded(oid) == CeilDiv(DemandWeight(oid), max_w)

\* tours of the result whose box carries the label of order oid
ToursOf(oid) ==
    {i \in DOMAIN tours_out :
        \E j \in DOMAIN tours_out[i].boxes :
            tours_out[i].boxes[j].order_id = OrDefault(oid)}

IsScenarioA ==
    /\ K = 6 /\ max_w = 10 /\ max_v = 10
    /\ ProductIds = {1, 2}
    /\ prods[1].w = 1 /\ prods[1].v = 1 /\ prods[2].w = 5 /\ prods[2].v = 5
    /\ Cardinality(OrderIds) = 1
    /\ \A oid \in OrderIds : OriginalDemand(oid, 1) = 3 /\ OriginalDemand(oid, 2) = 1

\* C12: Scenario A ends with exactly one tour holding a single box that
\* contains the 3 units of the first product and the unit of the second
\* (weight 8, volume 8), whichever product is visited first; no second tour
\* is ever emitted.
C12_ScenarioASingleBox ==
    IsScenarioA =>
        /\ Len(tours_out) <= 1
        /\ pc = "done" =>
              /\ Len(tours_out) = 1
              /\ Len(tours_out[1].boxes) = 1
              /\ LET b == tours_out[1].boxes[1]
                 IN /\ b.weight = 8
                    /\ b.volume = 8
                    /\ QtyIn(b.boxe_products, Len(b.boxe_products), 1) = 3
                    /\ QtyIn(b.boxe_products, Len(b.boxe_products), 2) = 1
                    /\ Len(b.boxe_products) = 2

\* Scenario A finished with the second product picked first
C12_Witness ==
    /\ IsScenarioA
    /\ pc = "done"
    /\ Len(tours_out) = 1
    /\ tours_out[1].boxes[1].boxe_products[1].product_id = 2

\* positions in the list bxs of the boxes opened for order oid
BoxesOfOrder(bxs, oid) == {i \in DOMAIN bxs : bxs[i].order_id = oid}

\* the first box opened for order oid among bxs
FirstBoxOfOrder(bxs, oid) ==
    CHOOSE i \in BoxesOfOrder(bxs, oid) : \A j \in BoxesOfOrder(bxs, oid) : i <= j

\* units of product pid in the box at position i of bxs, 0 if there is none
UnitsAt(bxs, i, pid) ==
    IF i \in DOMAIN bxs THEN QtyIn(bxs[i].products, Len(bxs[i].products), pid) ELSE 0

\* no box of order oid has room for the weight per > 0 of one more unit, and
\* no further box could take one
WeightExhausted(bxs, oid, per) ==
    /\ \A i \in BoxesOfOrder(bxs, oid) : max_w - bxs[i].weight < per
    /\ Len(bxs) >= K \/ max_w < per

\* the same for the volume per > 0 of one more unit
VolumeExhausted(bxs, oid, per) ==
    /\ \A i \in BoxesOfOrder(bxs, oid) : max_v - bxs[i].volume < per
    /\ Len(bxs) >= K \/ max_v < per

\* the Visiting iteration under way picks a product: the product picked
PickedProduct ==
    next_nearest_product(current_loc,
        Placeable(orders_state, active_orders, boxes, order_to_boxes))

\* C13: when the picker stops at a product of unit weight 0 (resp. unit
\* volume 0), each active order that needs it gets all the units it needs
\* unless the volume (resp. weight) of its boxes is exhausted; a product with
\* both equal to 0 goes entirely into the first box of the order.
C13_ZeroDimensionNeverLimits ==
    [][(pc = "visit" /\ crossed_locations' = crossed_locations + 1) =>
          LET nxt == PickedProduct
              per_w == prods[nxt].w
              per_v == prods[nxt].v
          IN \A k \in DOMAIN active_orders :
                LET oid == active_orders[k]
                    qty_need == Get(orders_state[oid], nxt, 0)
                    left == Get(orders_state'[oid], nxt, 0)
                    first == FirstBoxOfOrder(boxes, oid)
                IN qty_need > 0 =>
                      /\ (per_w = 0 /\ per_v > 0) =>
                            \/ left = 0
                            \/ VolumeExhausted(boxes', oid, per_v)
                      /\ (per_v = 0 /\ per_w > 0) =>
                            \/ left = 0
                            \/ WeightExhausted(boxes', oid, per_w)
                      /\ (per_w = 0 /\ per_v = 0) =>
                            /\ left = 0
                            /\ UnitsAt(boxes', first, nxt)
                                  = UnitsAt(boxes, first, nxt) + qty_need
      ]_vars

\* orders whose demand is zero for every product, orders without line included
IdleOrders == {oid \in OrderIds : \A pid \in ProductIds : OriginalDemand(oid, pid) = 0}

\* C14: an order that asks for nothing is done from the start: it is never
\* active, no box is ever opened for it, and the result never reports a
\* positive number of boxes for it.
C14_IdleOrderNeverServed ==
    \A oid \in IdleOrders :
        /\ \A pid \in DOMAIN orders_state[oid] : orders_state[oid][pid] = 0
        /\ oid \notin Range(active_orders)
        /\ BoxesOfOrder(boxes, oid) = {}
        /\ Get(orders_out_map, oid, 0) = 0
        /\ ReportedBoxes(oid) = 0

\* a finished run that emitted tours although the first order of the
\* instance asks for nothing
C14_Witness ==
    /\ pc = "done"
    /\ tours_out # <<>>
    /\ all_order_ids[1] \in IdleOrders

\* locations of the instance: depots, product locations, ends of table entries
Locations ==
    {start_loc, end_loc}
    \cup {instance.products[i].id_loc : i \in DOMAIN instance.products}
    \cup UNION { {instance.graph.shortest_distances[i].idDeparture,
                  instance.graph.shortest_distances[i].idArrival} :
                 i \in DOMAIN instance.graph.shortest_distances }

\* the table has an entry for the pair, in one direction or the other
Listed(a, b) ==
    \E i \in DOMAIN instance.graph.shortest_distances :
        LET e == instance.graph.shortest_distances[i]
        IN \/ e.idDeparture = a /\ e.idArrival = b
           \/ e.idDeparture = b /\ e.idArrival = a

\* C15: whatever the table, dist(a, b) = dist(b, a), dist(a, a) = 0, a pair
\* listed in neither direction is Unknown (None), and a listed pair of
\* distinct locations is not.
C15_DistanceSymmetricReflexive ==
    \A a \in Locations : \A b \in Locations :
        /\ dist(a, b) = dist(b, a)
        /\ dist(a, a) = 0
        /\ (a # b /\ ~Listed(a, b)) => dist(a, b) = None
        /\ (a # b /\ Listed(a, b)) => dist(a, b) # None

\* the picker has travelled although the table lists a pair in both
\* directions with different distances and a location at a distance from itself
C15_Witness ==
    /\ travelled > 0
    /\ \E i, j \in DOMAIN instance.graph.shortest_distances :
          LET e == instance.graph.shortest_distances[i]
              f == instance.graph.shortest_distances[j]
          IN /\ e.idDeparture = f.idArrival
             /\ e.idArrival = f.idDeparture
             /\ e.idDeparture # e.idArrival
             /\ e.distance # f.distance

\* no distance is known between two distinct locations
UnknownDistance(a, b) == a # b /\ <<a, b>> \notin DOMAIN known

\* C16: a Visiting step only moves the picker to a placeable product at a
\* known distance; when every placeable product is at an unknown distance the
\* Visiting phase ends with no distance added, no location counted and no
\* demand decremented; a return whose distance to the arrival depot is
\* unknown adds nothing; the demand left stays in the tracker.
C16_UnknownDistanceSkipsStep ==
    [][/\ pc = "visit" =>
            LET pl == Placeable(orders_state, active_orders, boxes, order_to_boxes)
            IN /\ crossed_locations' # crossed_locations =>
                     \E pid \in pl :
                        /\ current_loc' = prods[pid].id_loc
                        /\ ~UnknownDistance(current_loc, prods[pid].id_loc)
               /\ (\A pid \in pl : UnknownDistance(current_loc, prods[pid].id_loc)) =>
                     /\ pc' = "return"
                     /\ UNCHANGED <<travelled, crossed_locations, current_loc,
                                    orders_state, boxes>>
       /\ pc = "return" =>
            /\ pc' = "finalize"
            /\ UNCHANGED orders_state
            /\ UnknownDistance(current_loc, end_loc) =>
                  UNCHANGED <<travelled, crossed_locations>>
       /\ pc = "finalize" => UNCHANGED orders_state
      ]_vars

\* the Visiting phase has ended after one stop because the product still to
\* pick, which would fit, is at an unknown distance
C16_Witness ==
    /\ pc = "return"
    /\ crossed_locations = 1
    /\ Placeable(orders_state, active_orders, boxes, order_to_boxes) # {}
    /\ \A pid \in Placeable(orders_state, active_orders, boxes, order_to_boxes) :
          UnknownDistance(current_loc, prods[pid].id_loc)

\* C17: an order line that names a product absent from the product list does
\* not make the run fail.
C17_MissingProductTolerated == pc # "failed"

\* the orders of the tour have just been activated, nothing is picked yet
JustActivated == pc = "visit" /\ crossed_locations = 0

NotDoneOrders == {oid \in OrderIds : ~is_done(orders_state[oid])}

\* the not-done order with the lowest identifier
LowestNotDone == CHOOSE o \in NotDoneOrders : \A p \in NotDoneOrders : o <= p

\* the not-done order that the instance lists first
FirstListedNotDone ==
    instance.orders[CHOOSE i \in DOMAIN instance.orders :
                        /\ instance.orders[i].id \in NotDoneOrders
                        /\ \A j \in 1..(i - 1) :
                              instance.orders[j].id \notin NotDoneOrders].id

\* C18: under the non-mixed policy a tour activates exactly one order, the
\* not-done order with the lowest identifier, and opens exactly one initial
\* box for it.
C18_NonMixedActivatesLowestId ==
    (~instance.mixed_orders_allowed /\ JustActivated) =>
        /\ active_orders = <<LowestNotDone>>
        /\ Len(boxes) = 1
        /\ boxes[1].order_id = LowestNotDone
        /\ IsEmptyBox(boxes[1])

\* C18 as amended: under the non-mixed policy a tour activates exactly one
\* order, the not-done order that the instance lists first, and opens exactly
\* one initial box for it.
C18_NonMixedActivatesFirstListed ==
    (~instance.mixed_orders_allowed /\ JustActivated) =>
        /\ active_orders = <<FirstListedNotDone>>
        /\ Len(boxes) = 1
        /\ boxes[1].order_id = FirstListedNotDone
        /\ IsEmptyBox(boxes[1])

\* a non-mixed tour has activated the order listed first although the order
\* listed second, not done either, has the lower identifier
C18_Witness ==
    /\ ~instance.mixed_orders_allowed
    /\ JustActivated
    /\ Len(instance.orders) = 2
    /\ instance.orders[2].id < instance.orders[1].id
    /\ NotDoneOrders = OrderIds
    /\ active_orders = <<instance.orders[1].id>>

IsNotDoneOrder(oid) == oid \in NotDoneOrders

\* the not-done orders by ascending identifier
NotDoneByIdentifier == SetIterOrder(NotDoneOrders)

\* the not-done orders in the order in which the instance lists them
NotDoneAsListed ==
    SelectSeq([i \in DOMAIN instance.orders |-> instance.orders[i].id], IsNotDoneOrder)

\* the first K elements of a list, all of them when it is shorter
UpToK(ids) == SubSeq(ids, 1, Min(K, Len(ids)))

\* one empty initial box per active order, in the order of activation
OneInitialBoxEach ==
    /\ Len(boxes) = Len(active_orders)
    /\ \A i \in DOMAIN boxes :
          boxes[i].order_id = active_orders[i] /\ IsEmptyBox(boxes[i])

\* C19: under the mixed policy a tour activates the not-done orders by
\* ascending identifier, one initial box each, until all of them are active or
\* K boxes are open: min(K, number of not-done orders) active orders, none of
\* them done.
C19_MixedActivatesByIdentifier ==
    (instance.mixed_orders_allowed /\ JustActivated) =>
        /\ active_orders = UpToK(NotDoneByIdentifier)
        /\ OneInitialBoxEach
        /\ Len(active_orders) = Min(K, Cardinality(NotDoneOrders))

\* C19 as amended: the same with the not-done orders taken in the order in
\* which the instance lists them.
C19_MixedActivatesAsListed ==
    (instance.mixed_orders_allowed /\ JustActivated) =>
        /\ active_orders = UpToK(NotDoneAsListed)
        /\ OneInitialBoxEach
        /\ Len(active_orders) = Min(K, Cardinality(NotDoneOrders))

\* a mixed tour stopped activating at K boxes, leaving out a not-done order
\* with a lower identifier that the instance lists later
C19_Witness ==
    /\ instance.mixed_orders_allowed
    /\ JustActivated
    /\ Len(active_orders) = K
    /\ \E oid \in NotDoneOrders :
          oid \notin Range(active_orders) /\ oid < active_orders[1]

\* the distance between two locations that are at a known distance
KnownDistance(a, b) == IF a = b THEN 0 ELSE known[<<a, b>>]

\* placeable products at a known distance from the picker
ReachableCandidates ==
    {pid \in Placeable(orders_state, active_orders, boxes, order_to_boxes) :
        ~UnknownDistance(current_loc, prods[pid].id_loc)}

\* C20: a Visiting step moves the picker to a placeable product that an
\* active order still needs, at a known distance that no other placeable
\* product at a known distance undercuts, and adds that distance.
C20_NearestPlaceableChosen ==
    [][(pc = "visit" /\ crossed_locations' = crossed_locations + 1) =>
          \E pid \in ReachableCandidates :
              /\ current_loc' = prods[pid].id_loc
              /\ \E k \in DOMAIN active_orders :
                    Get(orders_state[active_orders[k]], pid, 0) > 0
              /\ travelled' = travelled + KnownDistance(current_loc, prods[pid].id_loc)
              /\ \A other \in ReachableCandidates :
                    KnownDistance(current_loc, prods[other].id_loc)
                        >= KnownDistance(current_loc, prods[pid].id_loc)
      ]_vars

\* after the first stop of a tour, a product still needed, which fits a box,
\* lies at a known distance from the depot greater than the distance travelled
C20_Witness ==
    /\ pc = "visit"
    /\ crossed_locations = 1
    /\ \A k \in DOMAIN active_orders : active_orders[k] > 0
    /\ \E pid \in Needed(orders_state, active_orders) :
          /\ FitsEmptyBox(pid)
          /\ ~UnknownDistance(start_loc, prods[pid].id_loc)
          /\ KnownDistance(start_loc, prods[pid].id_loc) > travelled

\* C21 (as stated): the return step changes the tour's travelled distance or
\* its crossed-location count only if the picker is away from the arrival
\* depot and at a known distance from it; a picker standing at the arrival
\* depot leaves the crossed-location count as it is.
C21_ReturnCountsOnlyAwayFromDepot ==
    [][pc = "return" =>
          /\ (travelled' # travelled \/ crossed_locations' # crossed_locations)
                => (current_loc # end_loc /\ ~UnknownDistance(current_loc, end_loc))
          /\ current_loc = end_loc => crossed_locations' = crossed_locations
      ]_vars

\* C21 (amended): the return step adds the distance to the arrival depot and
\* one crossed location exactly when that distance is known, the distance
\* from the arrival depot to itself being the known distance 0; otherwise it
\* changes neither.
C21_ReturnCountsWhenDistanceKnown ==
    [][pc = "return" =>
          IF UnknownDistance(current_loc, end_loc)
          THEN UNCHANGED <<travelled, crossed_locations>>
          ELSE /\ travelled' = travelled + KnownDistance(current_loc, end_loc)
               /\ crossed_locations' = crossed_locations + 1
      ]_vars

\* a tour that picked units at the arrival depot's own location has returned:
\* its distance is that of the visits, its count one more than the visits
C21_Witness ==
    /\ pc = "finalize"
    /\ current_loc = end_loc
    /\ \E i \in DOMAIN boxes : boxes[i].products # <<>>
    /\ crossed_locations >= 2

\* the accounting of a tour from its activation up to its return step, and of
\* the totals: the tour starts at the departing depot with nothing counted;
\* a visit adds the distance from the previous location of the route and one
\* crossed location, an iteration without a visit adds nothing; an emitted
\* tour adds its distance and its count to the totals, a discarded one adds
\* nothing; the result carries the totals
RouteAccountedUpToReturn ==
    /\ (pc = "loop" /\ pc' = "visit") =>
          /\ current_loc' = instance.graph.departing_depot
          /\ travelled' = 0
          /\ crossed_locations' = 0
    /\ pc = "visit" =>
          IF current_loc' # current_loc \/ orders_state' # orders_state
          THEN /\ \E pid \in ProductIds : current_loc' = prods[pid].id_loc
               /\ ~UnknownDistance(current_loc, current_loc')
               /\ travelled' = travelled + KnownDistance(current_loc, current_loc')
               /\ crossed_locations' = crossed_locations + 1
          ELSE UNCHANGED <<travelled, crossed_locations>>
    /\ pc = "finalize" =>
          IF tours_out' # tours_out
          THEN /\ total_travelled_distance' = total_travelled_distance + travelled
               /\ total_crossed_locations' = total_crossed_locations + crossed_locations
          ELSE UNCHANGED <<total_travelled_distance, total_crossed_locations>>
    /\ pc \notin {"loop", "visit", "return"} =>
          UNCHANGED <<current_loc, travelled, crossed_locations>>
    /\ pc # "finalize" =>
          UNCHANGED <<total_travelled_distance, total_crossed_locations>>
    /\ pc = "output" =>
          /\ out'.travelled_distance = total_travelled_distance
          /\ out'.crossed_locations = total_crossed_locations

ResultUnchanged ==
    UNCHANGED <<tours_out, tour_id, orders_out_map, total_travelled_distance,
                total_crossed_locations>>

\* C23: a tour that ends with zero non-empty boxes leaves the result
\* unchanged: no step of a tour before its end touches the tour list, the next
\* tour identifier, the per-order box counts or the two totals, and the end of
\* a tour whose boxes are all empty leaves them as they are.
C23_EmptyTourLeavesResult ==
    [][/\ pc \in {"loop", "visit", "return"} => ResultUnchanged
       /\ (pc = "finalize" /\ \A i \in DOMAIN boxes : boxes[i].products = <<>>)
             => ResultUnchanged
      ]_vars

\* after an emitted tour, a tour is about to end with its boxes opened and
\* empty and its return to the depot counted
C23_Witness ==
    /\ pc = "finalize"
    /\ boxes # <<>>
    /\ \A i \in DOMAIN boxes : boxes[i].products = <<>>
    /\ crossed_locations = 1
    /\ tours_out # <<>>
    /\ total_crossed_locations > 0

\* the tour context the packer and the placeable-units query work on
TourContext ==
    [boxes |-> boxes, order_to_boxes |-> order_to_boxes,
     global_box_id |-> global_box_id, placed |-> 0]

\* quantities a call may ask for: up to more than an empty box can hold
RequestedQuantities == 1..(MaxCapa + 1)

\* box b can take one more unit of product pid
HasRoom(b, pid) ==
    /\ prods[pid].w > 0 => max_w - b.weight >= prods[pid].w
    /\ prods[pid].v > 0 => max_v - b.volume >= prods[pid].v

\* units of product pid that the box at position i holds more in the boxes
\* after than in the boxes before
UnitsAdded(before, after, i, pid) ==
    UnitsAt(after, i, pid) - (IF i <= Len(before) THEN UnitsAt(before, i, pid) ELSE 0)

RECURSIVE SumUnitsAdded(_, _, _, _)
\* units of product pid added to the first n boxes
SumUnitsAdded(before, after, n, pid) ==
    IF n = 0 THEN 0
    ELSE SumUnitsAdded(before, after, n - 1, pid) + UnitsAdded(before, after, n, pid)

\* the outcome of can_place_in_any_box(oid, pid, q) in the current tour state
\* is that of a first-fit packer
FirstFit(oid, pid, q) ==
    LET r == can_place_in_any_box(TourContext, oid, pid, q)
        own == BoxesOfOrder(r.boxes, oid)
    IN /\ r.placed \in 0..q
       /\ r.placed = SumUnitsAdded(boxes, r.boxes, Len(r.boxes), pid)
       /\ \A i \in DOMAIN r.boxes : UnitsAdded(boxes, r.boxes, i, pid) >= 0
       /\ \A i \in own : \A j \in own :
             (i < j /\ UnitsAdded(boxes, r.boxes, j, pid) > 0)
                => ~HasRoom(r.boxes[i], pid)
       /\ Len(r.boxes) > Len(boxes) =>
             /\ Len(boxes) < K
             /\ Len(r.boxes) <= K
             /\ SumUnitsAdded(boxes, r.boxes, Len(boxes), pid) < q
             /\ \A i \in BoxesOfOrder(boxes, oid) : ~HasRoom(r.boxes[i], pid)
             /\ \A j \in (Len(boxes) + 1)..Len(r.boxes) : r.boxes[j].order_id = oid

\* C24: box packing is first-fit in creation order: in any state of the
\* Visiting phase, a call placing q units of a product for an active order
\* adds units to a box of the order only when the order's boxes created before
\* it can take no further unit, opens a new box only when the requested
\* quantity is not yet placed, every existing box of the order can take no
\* further unit and fewer than K boxes are open, and returns a count between
\* 0 and q that is the sum of the units added to boxes.
C24_FirstFitInCreationOrder ==
    pc = "visit" =>
        \A k \in DOMAIN active_orders : \A pid \in ProductIds :
            \A q \in RequestedQuantities :
                FirstFit(active_orders[k], pid, q)

C27_EveryVisitMakesProgress ==
    [][(pc = "visit" /\ crossed_locations' = crossed_locations + 1) =>
          /\ pc' = "visit"
          /\ \E pid \in ProductIds :
                /\ current_loc' = prods[pid].id_loc
                /\ \E k \in DOMAIN active_orders :
                      /\ Get(orders_state'[active_orders[k]], pid, 0)
                            < Get(orders_state[active_orders[k]], pid, 0)
                      /\ \E i \in DOMAIN boxes' :
                            UnitsAdded(boxes, boxes', i, pid) > 0
      ]_vars

\* a mixed tour of two orders after two visits, each order holding units
C27_Witness ==
    /\ pc = "visit"
    /\ instance.mixed_orders_allowed
    /\ crossed_locations = 2
    /\ Len(active_orders) = 2
    /\ \A k \in DOMAIN active_orders :
          \E i \in BoxesOfOrder(boxes, active_orders[k]) : boxes[i].products # <<>>

\* every two locations of the instance are at a known distance
AllDistancesKnown ==
    \A a \in Locations : \A b \in Locations : ~UnknownDistance(a, b)

\* a unit of product pid can go into an open box of order oid, or into a box
\* that can still be opened under K
StillPlaceable(oid, pid) ==
    \/ \E i \in BoxesOfOrder(boxes, oid) : HasRoom(boxes[i], pid)
    \/ Len(boxes) < K /\ FitsEmptyBox(pid)

\* C26: tours are maximal: when every distance is known, at the moment the
\* Visiting phase ends no product of which an active order still needs units
\* is placeable, neither in that order's open boxes nor in a box that could
\* still be opened under K.
C26_ToursAreMaximal ==
    (pc = "return" /\ AllDistancesKnown) =>
        \A k \in DOMAIN active_orders : \A pid \in ProductIds :
            Get(orders_state[active_orders[k]], pid, 0) > 0
                => ~StillPlaceable(active_orders[k], pid)

\* products the active orders ask for in the instance
DemandedByActive ==
    {pid \in ProductIds :
        \E k \in DOMAIN active_orders : OriginalDemand(active_orders[k], pid) > 0}

\* the candidates of the Visiting iteration in the next state
PlaceableNext ==
    Placeable(orders_state', active_orders', boxes', order_to_boxes')

\* C28: within one tour each product is visited at most once: the product of
\* a visit is no candidate after the visit, and no product becomes a candidate
\* again during the Visiting phase; the number of visits of a tour never
\* exceeds the number of distinct products its active orders demand.
C28_EachProductVisitedOnce ==
    [][pc = "visit" =>
          /\ crossed_locations <= Cardinality(DemandedByActive)
          /\ crossed_locations' <= Cardinality(DemandedByActive)
          /\ crossed_locations' = crossed_locations + 1
                => (PickedProduct \notin PlaceableNext
                    /\ current_loc' = prods[PickedProduct].id_loc)
          /\ PlaceableNext
                \subseteq Placeable(orders_state, active_orders, boxes, order_to_boxes)
      ]_vars

\* a tour of one order has visited each of the two products the order
\* demands, and the order still needs units
C28_Witness ==
    /\ pc = "return"
    /\ ~instance.mixed_orders_allowed
    /\ crossed_locations = 2
    /\ Cardinality(DemandedByActive) = 2
    /\ ~AllDone(orders_state)

\* position of order oid in the scan order of the activation
ScanPosition(oid) == CHOOSE p \in DOMAIN all_order_ids : all_order_ids[p] = oid

\* nothing of order oid has been picked
Untouched(oid) ==
    \A pid \in DOMAIN orders_state[oid] :
        orders_state[oid][pid] = OriginalDemand(oid, pid)

\* scan position of the order whose boxes make up emitted tour i
ScanPositionOfTour(i) ==
    CHOOSE p \in DOMAIN all_order_ids :
        OrDefault(all_order_ids[p]) = tours_out[i].boxes[1].order_id

\* C29: under the non-mixed policy orders are served strictly in scan order:
\* the one active order of a tour has only done orders before it; an order
\* that is not done has only untouched orders after it, so at most one order
\* is partially fulfilled and an order never completed keeps every later
\* order from being activated; every emitted tour holds boxes of one order
\* and the tours of an order are consecutive, in scan order.
C29_NonMixedServesInScanOrder ==
    ~instance.mixed_orders_allowed =>
        /\ TourOpen =>
              /\ Len(active_orders) = 1
              /\ \A oid \in OrderIds :
                    ScanPosition(oid) < ScanPosition(active_orders[1])
                       => is_done(orders_state[oid])
        /\ \A o1 \in OrderIds : \A o2 \in OrderIds :
              (ScanPosition(o1) < ScanPosition(o2) /\ ~is_done(orders_state[o1]))
                 => (Untouched(o2) /\ (TourOpen => active_orders[1] # o2))
        /\ Cardinality({oid \in OrderIds :
                           ~is_done(orders_state[oid]) /\ ~Untouched(oid)}) <= 1
        /\ \A i \in DOMAIN tours_out :
              /\ \A j \in DOMAIN tours_out[i].boxes :
                    tours_out[i].boxes[j].order_id = tours_out[i].boxes[1].order_id
              /\ \A j \in DOMAIN tours_out :
                    i < j => ScanPositionOfTour(i) <= ScanPositionOfTour(j)

\* a finished non-mixed run of at least three tours for two orders
C29_Witness ==
    /\ pc = "done"
    /\ ~instance.mixed_orders_allowed
    /\ Len(tours_out) >= 3
    /\ \E i \in DOMAIN tours_out :
          tours_out[i].boxes[1].order_id # tours_out[1].boxes[1].order_id

\* identifiers strictly increase along the boxes of bxs
IdsIncrease(bxs) ==
    \A i \in DOMAIN bxs : \A j \in DOMAIN bxs : i < j => bxs[i].id < bxs[j].id

\* the boxes emitted so far followed by the boxes of the tour under way carry
\* strictly increasing identifiers, all of them below the counter
BoxIdsOrdered ==
    LET known_boxes == [i \in DOMAIN EmittedBoxes |-> [id |-> EmittedBoxes[i].id]]
        open_boxes == IF pc \in {"visit", "return", "finalize"}
                      THEN [i \in DOMAIN boxes |-> [id |-> boxes[i].id]]
                      ELSE <<>>
    IN /\ IdsIncrease(known_boxes \o open_boxes)
       /\ \A i \in DOMAIN known_boxes : known_boxes[i].id < global_box_id
       /\ \A i \in DOMAIN open_boxes : open_boxes[i].id < global_box_id

\* positions of the boxes opened by the step under way
OpenedByStep ==
    IF pc = "loop" /\ pc' = "visit" THEN DOMAIN boxes'
    ELSE IF pc = "visit" THEN (Len(boxes) + 1)..Len(boxes')
    ELSE {}

\* C30: box identifiers are unique over the whole run and strictly increase
\* in output order, across the boxes of a tour and from one tour to the next;
\* the counter never goes back and every box opened takes an identifier from
\* the counter on, so the identifier of a discarded box is never used again.
C30_BoxIdsUniqueAndIncreasing ==
    [][/\ BoxIdsOrdered
       /\ BoxIdsOrdered'
       /\ global_box_id' >= global_box_id
       /\ \A i \in OpenedByStep :
             boxes'[i].id >= global_box_id /\ boxes'[i].id < global_box_id'
       /\ pc = "output" => IdsIncrease(AllBoxes(out'.tours, Len(out'.tours)))
      ]_vars

\* the result of a run whose emitted identifiers have a gap
C30_Witness ==
    /\ pc = "done"
    /\ Len(EmittedBoxes) >= 2
    /\ \E i \in 1..(Len(EmittedBoxes) - 1) :
          EmittedBoxes[i + 1].id > EmittedBoxes[i].id + 1
    /\ out.tours = tours_out

\* the boxes of the result, tour after tour
ResultBoxes == AllBoxes(out.tours, Len(out.tours))

\* r is an integer nearest to 100 * total / (nb * capacity), for nb > 0 and
\* capacity > 0
IsRoundedPercentage(r, total, nb, capacity) ==
    LET d == 2 * (r * nb * capacity - 100 * total)
    IN d <= nb * capacity /\ -d <= nb * capacity

\* C31: the average fill percentages of the result are the rounded value of
\* 100 * (sum of the result's box weights) / (number of boxes * weight
\* capacity), likewise for volume, and 0 when the result has no box; both
\* lie between 0 and 100.
C31_AverageFillPercentages ==
    pc = "done" =>
        /\ out.avg_weight \in 0..100
        /\ out.avg_volume \in 0..100
        /\ IF ResultBoxes = <<>>
           THEN out.avg_weight = 0 /\ out.avg_volume = 0
           ELSE /\ IsRoundedPercentage(out.avg_weight,
                                       SumWeight(ResultBoxes, Len(ResultBoxes)),
                                       Len(ResultBoxes), max_w)
                /\ IsRoundedPercentage(out.avg_volume,
                                       SumVolume(ResultBoxes, Len(ResultBoxes)),
                                       Len(ResultBoxes), max_v)

\* a result whose weight percentage is a rounded-up fraction
C31_Witness ==
    /\ pc = "done"
    /\ ResultBoxes # <<>>
    /\ out.avg_weight \in 1..99
    /\ out.avg_weight * Len(ResultBoxes) * max_w
          > 100 * SumWeight(ResultBoxes, Len(ResultBoxes))

-----------------------------------------------------------------------------
(* AlgoV1.process, the knowledge-source solver, as a function from the state
   of its run to the state after its next step; s is the record of its
   variables, the position in its code included *)

\* inst.graph.get("shortest_distances", [])
V1Table ==
    IF "shortest_distances" \in DOMAIN instance.graph
    THEN instance.graph.shortest_distances
    ELSE <<>>

RECURSIVE V1KnownUpTo(_)
\* _ShortestPathResolver.known after the first n entries of the table
V1KnownUpTo(n) ==
    IF n = 0 THEN EmptyDict
    ELSE LET e == V1Table[n]
         IN Put(Put(V1KnownUpTo(n - 1), <<e.idDeparture, e.idArrival>>, e.distance),
                <<e.idArrival, e.idDeparture>>, e.distance)

V1Known == V1KnownUpTo(Len(V1Table))

\* a missing pair defaulted to the distance 0
V1DistUnknownAsZero(a, b) == IF a = b THEN 0 ELSE Get(V1Known, <<a, b>>, 0)

\* _ShortestPathResolver.dist
V1Dist(a, b) == IF a = b THEN 0 ELSE Get(V1Known, <<a, b>>, None)

RECURSIVE V1ProductsUpTo(_)
\* _products_by_id
V1ProductsUpTo(n) ==
    IF n = 0 THEN EmptyDict
    ELSE Put(V1ProductsUpTo(n - 1), instance.products[n].id, instance.products[n])

V1Prods == V1ProductsUpTo(Len(instance.products))

\* K = int(inst.nb_boxes_trolley or 6)
V1K == IF instance.nb_boxes_trolley \in {None, 0} THEN 6 ELSE instance.nb_boxes_trolley

\* capa = inst.capa_box or [10**9, 10**9]; max_w, max_v
V1Capa == IF instance.capa_box = <<>> THEN <<10^9, 10^9>> ELSE instance.capa_box

V1MaxW == IF Len(V1Capa) > 0 THEN V1Capa[1] ELSE 10^9

V1MaxV == IF Len(V1Capa) > 1 THEN V1Capa[2] ELSE 10^9

RECURSIVE V1Rem(_, _)
\* rem of one order after its first n lines
V1Rem(lines, n) ==
    IF n = 0 THEN EmptyDict
    ELSE LET rem == V1Rem(lines, n - 1)
         IN Put(rem, lines[n].product, Get(rem, lines[n].product, 0) + lines[n].quantity)

RECURSIVE V1OrdersState(_)
\* orders_state after the first n orders of the instance
V1OrdersState(n) ==
    IF n = 0 THEN EmptyDict
    ELSE Put(V1OrdersState(n - 1), instance.orders[n].id,
             V1Rem(instance.orders[n].products, Len(instance.orders[n].products)))

RECURSIVE V1Keys(_)
\* list(orders_state.keys()) after the first n orders
V1Keys(n) ==
    IF n = 0 THEN <<>>
    ELSE IF \E j \in 1..(n - 1) : instance.orders[j].id = instance.orders[n].id
         THEN V1Keys(n - 1)
         ELSE Append(V1Keys(n - 1), instance.orders[n].id)

\* _OrderState.is_done
V1IsDone(rem) == ~\E pid \in DOMAIN rem : rem[pid] > 0

\* the state of process when it enters its run loop
V1Start ==
    [orders_state |-> V1OrdersState(Len(instance.orders)),
     all_order_ids |-> V1Keys(Len(instance.orders)),
     tours_out |-> <<>>, orders_out_map |-> EmptyDict, tour_id |-> 1,
     global_box_id |-> 1, total_travelled_distance |-> 0,
     total_crossed_locations |-> 0, active_orders |-> <<>>, boxes |-> <<>>,
     order_to_boxes |-> EmptyDict, current_loc |-> instance.graph.departing_depot,
     travelled |-> 0, crossed_locations |-> 0, out |-> NoOutput, pc |-> "loop"]

\* _BoxState(id=..., order_id=...)
V1Box(bid, oid) ==
    [id |-> bid, order_id |-> oid, weight |-> 0, volume |-> 0, products |-> <<>>]

\* _BoxState.add
V1Add(b, pid, qty) ==
    LET at == {i \in DOMAIN b.products : b.products[i].product_id = pid}
    IN [id |-> b.id, order_id |-> b.order_id,
        weight |-> b.weight + V1Prods[pid].w * qty,
        volume |-> b.volume + V1Prods[pid].v * qty,
        products |-> IF at = {}
                     THEN b.products \o <<[product_id |-> pid, quantity |-> qty]>>
                     ELSE [i \in DOMAIN b.products |->
                             IF i \in at
                             THEN [product_id |-> pid,
                                   quantity |-> b.products[i].quantity + qty]
                             ELSE b.products[i]]]

\* min(by_w, by_v) of a box with weight and volume in use, dflt standing for
\* a dimension in which the product has no size
V1Fits(weight, volume, pid, dflt) ==
    LET by_w == IF V1Prods[pid].w > 0
                THEN Max(0, V1MaxW - weight) \div Max(1, V1Prods[pid].w) ELSE dflt
        by_v == IF V1Prods[pid].v > 0
                THEN Max(0, V1MaxV - volume) \div Max(1, V1Prods[pid].v) ELSE dflt
    IN Min(by_w, by_v)

RECURSIVE V1TryExisting(_, _, _, _, _, _)
\* the loop over the existing boxes of the order in can_place_in_any_box:
\* lst are their positions, i the next one; done tells that the function
\* returned from inside the loop
V1TryExisting(bxs, lst, i, pid, qty_wanted, placed) ==
    IF i > Len(lst) THEN [boxes |-> bxs, placed |-> placed, done |-> FALSE]
    ELSE LET b == bxs[lst[i]]
             can_add == Min(qty_wanted - placed,
                            V1Fits(b.weight, b.volume, pid, qty_wanted))
             bxs_after == IF can_add > 0
                          THEN [bxs EXCEPT ![lst[i]] = V1Add(b, pid, can_add)]
                          ELSE bxs
             placed_after == IF can_add > 0 THEN placed + can_add ELSE placed
         IN IF placed_after >= qty_wanted
            THEN [boxes |-> bxs_after, placed |-> placed_after, done |-> TRUE]
            ELSE V1TryExisting(bxs_after, lst, i + 1, pid, qty_wanted, placed_after)

RECURSIVE V1OpenBoxes(_, _, _, _)
\* the loop of can_place_in_any_box that opens boxes; c carries boxes,
\* order_to_boxes, global_box_id and placed
V1OpenBoxes(c, oid, pid, qty_wanted) ==
    IF ~(c.placed < qty_wanted /\ Len(c.boxes) < V1K) THEN c
    ELSE LET can_add == Min(qty_wanted - c.placed, V1Fits(0, 0, pid, qty_wanted))
             new_b == V1Box(c.global_box_id, oid)
             opened ==
                 [boxes |-> Append(c.boxes,
                                   IF can_add <= 0 THEN new_b
                                   ELSE V1Add(new_b, pid, can_add)),
                  order_to_boxes |->
                      Put(c.order_to_boxes, oid,
                          Append(Get(c.order_to_boxes, oid, <<>>), Len(c.boxes) + 1)),
                  global_box_id |-> c.global_box_id + 1,
                  placed |-> IF can_add <= 0 THEN c.placed ELSE c.placed + can_add]
         IN IF can_add <= 0 THEN opened
            ELSE V1OpenBoxes(opened, oid, pid, qty_wanted)

\* can_place_in_any_box of process
V1Place(bxs, otb, gbid, oid, pid, qty_wanted) ==
    LET e == V1TryExisting(bxs, Get(otb, oid, <<>>), 1, pid, qty_wanted, 0)
        c == [boxes |-> e.boxes, order_to_boxes |-> otb, global_box_id |-> gbid,
              placed |-> e.placed]
    IN IF e.done THEN c ELSE V1OpenBoxes(c, oid, pid, qty_wanted)

RECURSIVE V1RoomIn(_, _, _, _)
\* total of can_placeable_units over the existing boxes of the order
V1RoomIn(bxs, lst, i, pid) ==
    IF i > Len(lst) THEN 0
    ELSE Max(0, V1Fits(bxs[lst[i]].weight, bxs[lst[i]].volume, pid, 10^9))
            + V1RoomIn(bxs, lst, i + 1, pid)

\* can_placeable_units of process
V1PlaceableUnits(bxs, otb, oid, pid) ==
    LET total == V1RoomIn(bxs, Get(otb, oid, <<>>), 1, pid)
        available_slots == Max(0, V1K - Len(bxs))
    IN IF available_slots > 0
       THEN total + available_slots * Max(0, V1Fits(0, 0, pid, 10^9))
       ELSE total

\* needed of one Visiting iteration
V1Needed(s) ==
    {pid \in DOMAIN V1Prods :
        \E k \in DOMAIN s.active_orders :
            LET rem == s.orders_state[s.active_orders[k]]
            IN ~V1IsDone(rem) /\ pid \in DOMAIN rem /\ rem[pid] > 0}

RECURSIVE V1TotalPlaceable(_, _, _)
\* total_placeable of product pid over the active orders from position k on
V1TotalPlaceable(s, pid, k) ==
    IF k > Len(s.active_orders) THEN 0
    ELSE LET oid == s.active_orders[k]
             qty_need == Get(s.orders_state[oid], pid, 0)
         IN (IF qty_need > 0
             THEN Min(qty_need, V1PlaceableUnits(s.boxes, s.order_to_boxes, oid, pid))
             ELSE 0)
            + V1TotalPlaceable(s, pid, k + 1)

\* placeable of one Visiting iteration
V1Candidates(s) == {pid \in V1Needed(s) : V1TotalPlaceable(s, pid, 1) > 0}

RECURSIVE V1NearestFrom(_, _, _, _)
\* _next_nearest_product: cands in the iteration order of the set, best the
\* pair of the best product and its distance so far
V1NearestFrom(loc, cands, i, best) ==
    IF i > Len(cands) THEN best[1]
    ELSE LET d == V1Dist(loc, V1Prods[cands[i]].id_loc)
         IN IF d # None /\ (best[2] = None \/ d < best[2])
            THEN V1NearestFrom(loc, cands, i + 1, <<cands[i], d>>)
            ELSE V1NearestFrom(loc, cands, i + 1, best)

V1Nearest(loc, cands) ==
    IF cands = {} THEN None
    ELSE V1NearestFrom(loc, SetIterOrder(cands), 1, <<None, None>>)

RECURSIVE V1Fill(_, _, _)
\* the loop over active_orders after the move to product nxt; c carries
\* boxes, order_to_boxes, global_box_id, orders_state and progress
V1Fill(c, act, nxt) ==
    IF act = <<>> THEN c
    ELSE LET oid == Head(act)
             qty_need == Get(c.orders_state[oid], nxt, 0)
             r == V1Place(c.boxes, c.order_to_boxes, c.global_box_id, oid, nxt, qty_need)
         IN IF qty_need <= 0 THEN V1Fill(c, Tail(act), nxt)
            ELSE IF r.placed > 0
                 THEN V1Fill([boxes |-> r.boxes, order_to_boxes |-> r.order_to_boxes,
                              global_box_id |-> r.global_box_id,
                              orders_state |->
                                  [c.orders_state EXCEPT ![oid][nxt] = @ - r.placed],
                              progress |-> c.progress + r.placed],
                             Tail(act), nxt)
                 ELSE V1Fill([boxes |-> r.boxes, order_to_boxes |-> r.order_to_boxes,
                              global_box_id |-> r.global_box_id,
                              orders_state |-> c.orders_state,
                              progress |-> c.progress],
                             Tail(act), nxt)

RECURSIVE V1ActivateMixed(_, _, _)
\* mixed policy: the scan of all_order_ids from position i with the active
\* orders and boxes a collected so far
V1ActivateMixed(s, a, i) ==
    IF i > Len(s.all_order_ids) \/ Len(a.boxes) >= V1K THEN a
    ELSE LET oid == s.all_order_ids[i]
         IN IF ~V1IsDone(s.orders_state[oid])
            THEN V1ActivateMixed(s,
                     [active_orders |-> Append(a.active_orders, oid),
                      boxes |-> Append(a.boxes, V1Box(a.global_box_id, oid)),
                      global_box_id |-> a.global_box_id + 1],
                     i + 1)
            ELSE V1ActivateMixed(s, a, i + 1)

\* non-mixed policy: the first order of all_order_ids that is not done
V1ActivateOne(s) ==
    LET open == {i \in DOMAIN s.all_order_ids :
                    ~V1IsDone(s.orders_state[s.all_order_ids[i]])}
        first == CHOOSE i \in open : \A j \in open : i <= j
    IN IF open = {}
       THEN [active_orders |-> <<>>, boxes |-> <<>>, global_box_id |-> s.global_box_id]
       ELSE [active_orders |-> <<s.all_order_ids[first]>>,
             boxes |-> <<V1Box(s.global_box_id, s.all_order_ids[first])>>,
             global_box_id |-> s.global_box_id + 1]

RECURSIVE V1OrderToBoxes(_, _)
\* order_to_boxes.setdefault(b.order_id or -1, []).append(b) for the first n
\* boxes
V1OrderToBoxes(bxs, n) ==
    IF n = 0 THEN EmptyDict
    ELSE LET m == V1OrderToBoxes(bxs, n - 1)
             key == IF bxs[n].order_id = 0 THEN -1 ELSE bxs[n].order_id
         IN Put(m, key, Append(Get(m, key, <<>>), n))

\* the head of the run loop: stop, or activate the orders of a tour
V1Activate(s) ==
    IF \A i \in DOMAIN s.all_order_ids : V1IsDone(s.orders_state[s.all_order_ids[i]])
    THEN [s EXCEPT !.pc = "output"]
    ELSE LET a == IF ~instance.mixed_orders_allowed
                  THEN V1ActivateOne(s)
                  ELSE V1ActivateMixed(s, [active_orders |-> <<>>, boxes |-> <<>>,
                                           global_box_id |-> s.global_box_id], 1)
             t == [s EXCEPT !.active_orders = a.active_orders, !.boxes = a.boxes,
                            !.global_box_id = a.global_box_id]
         IN IF a.active_orders = <<>>
            THEN [t EXCEPT !.pc = "output"]
            ELSE [t EXCEPT !.pc = "visit",
                           !.current_loc = instance.graph.departing_depot,
                           !.travelled = 0, !.crossed_locations = 0,
                           !.order_to_boxes = V1OrderToBoxes(a.boxes, Len(a.boxes))]

\* one iteration of the Visiting loop
V1Visit(s) ==
    LET placeable == V1Candidates(s)
        nxt == V1Nearest(s.current_loc, placeable)
        loc == V1Prods[nxt].id_loc
        dstep == V1Dist(s.current_loc, loc)
        f == V1Fill([boxes |-> s.boxes, order_to_boxes |-> s.order_to_boxes,
                     global_box_id |-> s.global_box_id,
                     orders_state |-> s.orders_state, progress |-> 0],
                    s.active_orders, nxt)
    IN IF V1Needed(s) = {} \/ placeable = {} \/ nxt = None
       THEN [s EXCEPT !.pc = "return"]
       ELSE IF dstep = None THEN [s EXCEPT !.pc = "return"]
       ELSE [s EXCEPT !.travelled = @ + dstep, !.current_loc = loc,
                      !.crossed_locations = @ + 1,
                      !.boxes = f.boxes, !.order_to_boxes = f.order_to_boxes,
                      !.global_box_id = f.global_box_id,
                      !.orders_state = f.orders_state,
                      !.pc = IF f.progress = 0 THEN "return" ELSE "visit"]

\* the return to the arrival depot
V1Return(s) ==
    LET dend == V1Dist(s.current_loc, instance.graph.arrival_depot)
    IN IF s.current_loc # None /\ instance.graph.arrival_depot # None /\ dend # None
       THEN [s EXCEPT !.travelled = @ + dend, !.crossed_locations = @ + 1,
                      !.pc = "finalize"]
       ELSE [s EXCEPT !.pc = "finalize"]

RECURSIVE V1BoxesOut(_, _)
\* boxes_out of the first n boxes of the tour
V1BoxesOut(bxs, n) ==
    IF n = 0 THEN <<>>
    ELSE IF bxs[n].products = <<>> THEN V1BoxesOut(bxs, n - 1)
    ELSE Append(V1BoxesOut(bxs, n - 1),
                [id |-> bxs[n].id,
                 order_id |-> IF bxs[n].order_id = 0 THEN -1 ELSE bxs[n].order_id,
                 weight |-> bxs[n].weight, volume |-> bxs[n].volume,
                 boxe_products |-> bxs[n].products])

\* orders_out_map after the boxes of a tour are counted
V1Counted(m, bo) ==
    [oid \in DOMAIN m \cup {bo[i].order_id : i \in DOMAIN bo} |->
        Get(m, oid, 0) + Cardinality({i \in DOMAIN bo : bo[i].order_id = oid})]

\* the end of a tour
V1Finalize(s) ==
    LET boxes_out == V1BoxesOut(s.boxes, Len(s.boxes))
    IN IF boxes_out # <<>>
       THEN [s EXCEPT !.orders_out_map = V1Counted(@, boxes_out),
                      !.tours_out = Append(@, [id |-> s.tour_id, boxes |-> boxes_out]),
                      !.tour_id = @ + 1,
                      !.total_travelled_distance = @ + s.travelled,
                      !.total_crossed_locations = @ + s.crossed_locations,
                      !.pc = "loop"]
       ELSE [s EXCEPT !.pc = "loop"]

RECURSIVE V1Sum(_, _)
\* sum of field f over the boxes bs, f one of "weight", "volume"
V1Sum(bs, f) == IF bs = <<>> THEN 0 ELSE bs[1][f] + V1Sum(Tail(bs), f)

RECURSIVE V1AllBoxes(_)
V1AllBoxes(ts) == IF ts = <<>> THEN <<>> ELSE Head(ts).boxes \o V1AllBoxes(Tail(ts))

\* int(round(total * 100 / (nb * max(1, capacity)))), nb > 0: the nearest
\* integer, the even one of two
V1Percent(total, nb, capacity) ==
    LET den == nb * Max(1, capacity)
        lo == (total * 100) \div den
        twice == 2 * ((total * 100) % den)
    IN IF twice > den \/ (twice = den /\ lo % 2 = 1) THEN lo + 1 ELSE lo

\* the statistics and the Output of process
V1Output(s) ==
    LET all_boxes == V1AllBoxes(s.tours_out)
        ks == SetIterOrder(DOMAIN s.orders_out_map)
    IN [s EXCEPT
          !.out = [travelled_distance |-> s.total_travelled_distance,
                   crossed_locations |-> s.total_crossed_locations,
                   avg_weight |-> IF all_boxes = <<>> THEN 0
                                  ELSE V1Percent(V1Sum(all_boxes, "weight"),
                                                 Len(all_boxes), V1MaxW),
                   avg_volume |-> IF all_boxes = <<>> THEN 0
                                  ELSE V1Percent(V1Sum(all_boxes, "volume"),
                                                 Len(all_boxes), V1MaxV),
                   tours |-> s.tours_out,
                   orders |-> [i \in DOMAIN ks |->
                                 [id |-> ks[i], nbr_boxes |-> s.orders_out_map[ks[i]]]]],
          !.pc = "done"]

\* the next step of process
V1Step(s) ==
    IF s.pc = "loop" THEN V1Activate(s)
    ELSE IF s.pc = "visit" THEN V1Visit(s)
    ELSE IF s.pc = "return" THEN V1Return(s)
    ELSE IF s.pc = "finalize" THEN V1Finalize(s)
    ELSE IF s.pc = "output" THEN V1Output(s)
    ELSE s

\* the state of solve_instance as a record of the same shape
SolverState ==
    [orders_state |-> orders_state, all_order_ids |-> all_order_ids,
     tours_out |-> tours_out, orders_out_map |-> orders_out_map,
     tour_id |-> tour_id, global_box_id |-> global_box_id,
     total_travelled_distance |-> total_travelled_distance,
     total_crossed_locations |-> total_crossed_locations,
     active_orders |-> active_orders, boxes |-> boxes,
     order_to_boxes |-> order_to_boxes, current_loc |-> current_loc,
     travelled |-> travelled, crossed_locations |-> crossed_locations,
     out |-> out, pc |-> pc]

\* C32: solve_instance and AlgoV1.process are the same algorithm: they start
\* a run on the same instance in the same state, and every step of
\* solve_instance (activation, visit with its placements, return, end of
\* tour, result) leads to the state to which the step of process leads, so
\* that tours, box identifiers, box contents, per-order box counts, distances
\* and fill statistics are the same.
C32_SolversAgree ==
    [][/\ (pc = "loop" /\ global_box_id = 1) => SolverState = V1Start
       /\ pc \in {"loop", "visit", "return", "finalize", "output"}
             => SolverState' = V1Step(SolverState)
      ]_vars

\* both solvers have produced the result of a mixed run of at least two
\* tours, one of them with boxes of two orders
C32_Witness ==
    /\ pc = "done"
    /\ instance.mixed_orders_allowed
    /\ Len(out.tours) >= 2
    /\ out.travelled_distance > 0
    /\ \E i \in DOMAIN out.tours :
          \E j \in DOMAIN out.tours[i].boxes :
              out.tours[i].boxes[j].order_id # out.tours[i].boxes[1].order_id

-----------------------------------------------------------------------------
(* The blackboard pipeline: Blackboard.add_knowledge_source and
   Controller.run_knowledge_sources *)

\* solve_instance is not running
NoRun ==
    /\ instance = None
    /\ orders_state = EmptyDict
    /\ all_order_ids = <<>>
    /\ tours_out = <<>>
    /\ orders_out_map = EmptyDict
    /\ tour_id = 1
    /\ global_box_id = 1
    /\ total_travelled_distance = 0
    /\ total_crossed_locations = 0
    /\ active_orders = <<>>
    /\ boxes = <<>>
    /\ order_to_boxes = EmptyDict
    /\ current_loc = None
    /\ travelled = 0
    /\ crossed_locations = 0
    /\ out = NoOutput

\* the knowledge sources of the repository
KnowledgeSourceNames == {"ReadInstance", "AlgoV1", "WriteOutput"}

\* a knowledge source object; added is the number of the add_knowledge_source
\* call that registered it
KnowledgeSource(name, k) == [name |-> name, added |-> k]

Call(method, ks, result) == [method |-> method, source |-> ks, result |-> result]

\* self.knowledge_sources.append(knowledge_source)
AddKnowledgeSource ==
    /\ pc = "setup"
    /\ Len(knowledge_sources) < MaxSources
    /\ \E name \in KnowledgeSourceNames :
          knowledge_sources' =
              Append(knowledge_sources,
                     KnowledgeSource(name, Len(knowledge_sources) + 1))
    /\ UNCHANGED <<solver_vars, pc, solutions, ks_index, calls, packing_vars,
                   batching_vars>>

\* run_knowledge_sources is called: the for loop takes the first source, or
\* ends at once on an empty list
RunKnowledgeSources ==
    /\ pc = "setup"
    /\ IF knowledge_sources = <<>>
       THEN pc' = "ran" /\ UNCHANGED ks_index
       ELSE pc' = "verify" /\ ks_index' = 1
    /\ UNCHANGED <<solver_vars, solutions, knowledge_sources, calls,
                   packing_vars, batching_vars>>

\* the verification without the assert: processing starts whatever it returned
VerifyUnasserted ==
    /\ pc = "verify"
    /\ \E ok \in BOOLEAN :
          calls' = Append(calls, Call("verify", knowledge_sources[ks_index], ok))
    /\ pc' = "process"
    /\ UNCHANGED <<solver_vars, solutions, knowledge_sources, ks_index,
                   packing_vars, batching_vars>>

\* assert knowledge_source.verify(): a false result raises AssertionError,
\* which nothing catches
Verify ==
    /\ pc = "verify"
    /\ \E ok \in BOOLEAN :
          /\ calls' = Append(calls, Call("verify", knowledge_sources[ks_index], ok))
          /\ pc' = IF ok THEN "process" ELSE "asserted"
    /\ UNCHANGED <<solver_vars, solutions, knowledge_sources, ks_index,
                   packing_vars, batching_vars>>

\* knowledge_source.process(), then the next source of the list
Process ==
    /\ pc = "process"
    /\ calls' = Append(calls, Call("process", knowledge_sources[ks_index], TRUE))
    /\ IF ks_index < Len(knowledge_sources)
       THEN ks_index' = ks_index + 1 /\ pc' = "verify"
       ELSE pc' = "ran" /\ UNCHANGED ks_index
    /\ UNCHANGED <<solver_vars, solutions, knowledge_sources, packing_vars,
                   batching_vars>>

InitController ==
    /\ NoRun
    /\ OtherProgramsIdle
    /\ pc = "setup"

NextController == AddKnowledgeSource \/ RunKnowledgeSources \/ Verify \/ Process

SpecController == InitController /\ [][NextController]_vars

\* the sources of the verify calls made so far, in call order
RECURSIVE Verified(_, _)
Verified(cs, n) ==
    IF n = 0 THEN <<>>
    ELSE IF cs[n].method = "verify"
         THEN Append(Verified(cs, n - 1), cs[n].source)
         ELSE Verified(cs, n - 1)

\* the sources registered by the first n add_knowledge_source calls, in the
\* order of those calls
InOrderAdded(kss, n) ==
    /\ n <= Len(kss)
    /\ \A i \in 1..n : kss[i].added = i

\* C33: the controller runs the knowledge sources in the order they were
\* added to the blackboard: the sources verified so far are the first ones
\* added, each once, in the order of their addition; a process call comes
\* right after the verify call of the same source, which returned true; and
\* a verify call that returned false is the last call of the run.
C33_SourcesRunInOrder ==
    LET v == Verified(calls, Len(calls))
    IN /\ InOrderAdded(knowledge_sources, Len(v))
       /\ \A i \in DOMAIN v : v[i] = knowledge_sources[i]
       /\ \A j \in DOMAIN calls :
             /\ calls[j].method = "process"
                   => /\ j > 1
                      /\ calls[j - 1].method = "verify"
                      /\ calls[j - 1].source = calls[j].source
                      /\ calls[j - 1].result
             /\ (calls[j].method = "verify" /\ ~calls[j].result)
                   => j = Len(calls)
       /\ \A i, j \in DOMAIN calls :
             (i < j /\ calls[i].method = "process" /\ calls[j].method = "process")
                => calls[i].source.added < calls[j].source.added

\* a second source failed its verification after the first was processed,
\* and a third source is left unrun
C33_Witness ==
    /\ pc = "asserted"
    /\ Len(knowledge_sources) = 3
    /\ Len(calls) = 3
    /\ calls[1].result /\ calls[2].method = "process" /\ ~calls[3].result
    /\ calls[3].source = knowledge_sources[2]

-----------------------------------------------------------------------------
(* Writing the solution: Output.write_solution_file, called by
   run_solver.main on the result of solve_instance, and the WriteOutput
   knowledge source of the blackboard pipeline.  A line of the file is kept
   as its comment text, or as the integers whose decimal forms are joined by
   single spaces, and what is appended to them. *)

CommentLine(text) == [comment |-> text, parts |-> <<>>, tail |-> ""]

DataLine(parts, tail) == [comment |-> "", parts |-> parts, tail |-> tail]

NbTourneesHeader == CommentLine("//NbTournees")

TourHeader == CommentLine("//IdTournes NbColis")

BoxHeader ==
    CommentLine("//IdColis IdCommandeInColis NbProducts IdProd1 QtyProd1 IdProd2 QtyProd2 ...")

RECURSIVE ProductParts(_, _)
\* parts.extend([str(bp.product_id), str(bp.quantity)]) for every product
ProductParts(bps, n) ==
    IF n = 0 THEN <<>>
    ELSE ProductParts(bps, n - 1) \o <<bps[n].product_id, bps[n].quantity>>

\* a box line that declares one product whatever the box holds
BoxLineDeclaringOne(b) ==
    DataLine(<<b.id, b.order_id, 1>>
             \o ProductParts(b.boxe_products, Len(b.boxe_products)), " ")

\* " ".join(parts) + " "
BoxLine(b) ==
    DataLine(<<b.id, b.order_id, Len(b.boxe_products)>>
             \o ProductParts(b.boxe_products, Len(b.boxe_products)), " ")

RECURSIVE BoxLines(_, _)
BoxLines(bs, n) ==
    IF n = 0 THEN <<>> ELSE Append(BoxLines(bs, n - 1), BoxLine(bs[n]))

\* the lines of one tour
TourLines(t) ==
    <<TourHeader, DataLine(<<t.id, Len(t.boxes)>>, ""), BoxHeader>>
    \o BoxLines(t.boxes, Len(t.boxes))

RECURSIVE ToursLines(_, _)
ToursLines(ts, n) ==
    IF n = 0 THEN <<>> ELSE ToursLines(ts, n - 1) \o TourLines(ts[n])

\* lines, as write_solution_file builds them
SolutionLines(ts) ==
    <<NbTourneesHeader, DataLine(<<Len(ts)>>, "")>> \o ToursLines(ts, Len(ts))

\* a writer that exports whatever it is given
AlwaysToExport(ts) == FALSE

\* not self.tours
NothingToExport(ts) == ts = <<>>

\* out.write_solution_file(): ValueError before os.makedirs on a result
\* without tours, which main does not catch; otherwise the directory is made
\* and the file written
WriteSolutionFile ==
    /\ pc = "done"
    /\ IF NothingToExport(out.tours)
       THEN /\ pc' = "raised"
            /\ UNCHANGED solutions
       ELSE /\ solutions' = [made |-> TRUE,
                             files |-> Append(solutions.files,
                                              SolutionLines(out.tours))]
            /\ pc' = "written"
    /\ UNCHANGED <<solver_vars, controller_vars, packing_vars, batching_vars>>

\* WriteOutput.verify on a blackboard whose output is the result
WriteOutputVerify(o) == o.tours # <<>>

\* the WriteOutput knowledge source run by the controller on the result of
\* AlgoV1.process: the assert on verify fails on a result without tours;
\* process makes the directory and then raises AttributeError on tour.id,
\* the tours of AlgoV1 being dicts
WriteOutput ==
    /\ pc = "done"
    /\ IF ~WriteOutputVerify(out)
       THEN /\ pc' = "asserted"
            /\ UNCHANGED solutions
       ELSE /\ solutions' = [solutions EXCEPT !.made = TRUE]
            /\ pc' = "raised"
    /\ UNCHANGED <<solver_vars, controller_vars, packing_vars, batching_vars>>

\* two orders, the first of which fills one box with two products
TwoProductBoxInstances ==
    { [nb_boxes_trolley |-> nb, capa_box |-> <<MaxCapa, MaxCapa>>,
       mixed_orders_allowed |-> mx,
       products |-> <<Product(1, 1, 1, 1), Product(2, 2, MaxUnit, 1)>>,
       orders |-> <<Order(ids[1], <<Line(1, 1), Line(2, 1)>>),
                    Order(ids[2], <<Line(2, q)>>)>>,
       graph |-> [departing_depot |-> 0, arrival_depot |-> 0,
                  shortest_distances |->
                      <<Path(0, 1, 1), Path(0, 2, MaxDist), Path(1, 2, 1)>>]] :
        nb \in TrolleySizes, mx \in BOOLEAN, ids \in {<<2, 1>>, <<1, 2>>},
        q \in Quantities }

\* results without tours, and results of several tours, boxes and products
WriterInstances ==
    IdleOrderInstances \cup CompletableInstances \cup TwoProductBoxInstances

InitWriter ==
    /\ instance \in WriterInstances
    /\ RunStart

NextWriter == Next \/ WriteSolutionFile \/ WriteOutput

SpecWriter == InitWriter /\ [][NextWriter]_vars

\* C34: a result with zero tours is never written as a solution file: the
\* step that follows such a result ends in an error (the ValueError of
\* write_solution_file, the failed assertion on WriteOutput.verify, which
\* returns false), with no directory made and no file written.
C34_ZeroToursNeverWritten ==
    [][(pc = "done" /\ out.tours = <<>>)
          => /\ pc' \in {"raised", "asserted"}
             /\ solutions' = NoSolutions
             /\ ~WriteOutputVerify(out)
      ]_vars

\* an instance with orders, none of which asks for anything: the result has
\* no tour and writing it raised
C34_Witness ==
    /\ pc = "raised"
    /\ out.tours = <<>>
    /\ instance.orders # <<>>
    /\ solutions = NoSolutions

\* positions of the tour headers of a file, ascending
BlockStarts(f) == SetIterOrder({i \in DOMAIN f : f[i] = TourHeader})

\* the position after the last line of the k-th tour block
BlockEnd(f, k) ==
    LET st == BlockStarts(f)
    IN IF k < Len(st) THEN st[k + 1] ELSE Len(f) + 1

\* the box lines of the k-th tour block: what follows its tour line and its
\* box header
BlockBoxLines(f, k) ==
    LET st == BlockStarts(f)
    IN SubSeq(f, st[k] + 3, BlockEnd(f, k) - 1)

\* the (product, quantity) pairs of a box line
Pairs(line) ==
    [i \in 1..((Len(line.parts) - 3) \div 2) |->
        [product_id |-> line.parts[2 * i + 2], quantity |-> line.parts[2 * i + 3]]]

\* the file f is structurally consistent with the tours ts
ConsistentWith(f, ts) ==
    LET st == BlockStarts(f)
    IN /\ Len(f) >= 2
       /\ f[1] = NbTourneesHeader
       /\ f[2].comment = "" /\ Len(f[2].parts) = 1
       /\ f[2].parts[1] = Len(st)
       /\ Len(st) = Len(ts)
       /\ st # <<>> => st[1] = 3
       /\ \A k \in DOMAIN st :
             LET tl == f[st[k] + 1]
                 bl == BlockBoxLines(f, k)
             IN /\ BlockEnd(f, k) >= st[k] + 3
                /\ tl.comment = "" /\ Len(tl.parts) = 2
                /\ f[st[k] + 2] = BoxHeader
                /\ tl.parts[1] = ts[k].id
                /\ tl.parts[2] = Len(bl)
                /\ Len(bl) = Len(ts[k].boxes)
                /\ \A j \in DOMAIN bl :
                      /\ bl[j].comment = "" /\ bl[j].tail = " "
                      /\ Len(bl[j].parts) >= 3
                      /\ Len(bl[j].parts) = 3 + 2 * bl[j].parts[3]
                      /\ bl[j].parts[1] = ts[k].boxes[j].id
                      /\ bl[j].parts[2] = ts[k].boxes[j].order_id
                      /\ Pairs(bl[j]) = ts[k].boxes[j].boxe_products

\* C35: the written solution is structurally consistent with the result:
\* the declared tour count is the number of tour blocks, each tour line
\* declares as many boxes as box lines follow it, each box line declares as
\* many products as it has (product, quantity) pairs, and the tours, their
\* boxes and the products of the boxes appear in result order.
C35_SolutionMatchesResult ==
    \A n \in DOMAIN solutions.files : ConsistentWith(solutions.files[n], out.tours)

\* a written result of two tours, one of them with a box of two products
C35_Witness ==
    /\ pc = "written"
    /\ Len(solutions.files) = 1
    /\ Len(out.tours) >= 2
    /\ \E k \in DOMAIN out.tours : \E j \in DOMAIN out.tours[k].boxes :
          Len(out.tours[k].boxes[j].boxe_products) = 2

-----------------------------------------------------------------------------
(* Packing by weight and volume: PackingManager.fill_boxes_for_order *)

PackingItem(idx, location, weight, volume, quantity) ==
    [idx |-> idx, location |-> location, weight |-> weight, volume |-> volume,
     quantity |-> quantity]

\* Box(self.max_weight, self.max_volume, order_id)
EmptyBox == [contents |-> <<>>, current_weight |-> 0, current_volume |-> 0]

\* Box.can_fit
CanFit(b, item, qty) ==
    /\ b.current_weight + item.weight * qty <= manager.max_weight
    /\ b.current_volume + item.volume * qty <= manager.max_volume

\* an add_item that forgets the weight and the volume of what it adds
AddItemUntracked(b, item, qty) ==
    [b EXCEPT !.contents =
                  Append(@, [idx |-> item.idx, count |-> qty,
                             weight |-> item.weight, volume |-> item.volume,
                             location |-> item.location])]

\* Box.add_item
AddItem(b, item, qty) ==
    [contents |-> Append(b.contents,
                         [idx |-> item.idx, count |-> qty,
                          weight |-> item.weight, volume |-> item.volume,
                          location |-> item.location]),
     current_weight |-> b.current_weight + item.weight * qty,
     current_volume |-> b.current_volume + item.volume * qty]

\* possible = min(item.quantity, max_by_weight, max_by_volume)
Possible(b, item) ==
    LET max_by_weight == IF item.weight > 0
                         THEN (manager.max_weight - b.current_weight) \div item.weight
                         ELSE item.quantity
        max_by_volume == IF item.volume > 0
                         THEN (manager.max_volume - b.current_volume) \div item.volume
                         ELSE item.quantity
    IN Min3(item.quantity, max_by_weight, max_by_volume)

RECURSIVE ForItems(_, _, _)
\* the for loop over remaining_items from position i on: the box and the
\* items when the loop ends or breaks
ForItems(b, items, i) ==
    IF i > Len(items) THEN [box |-> b, items |-> items]
    ELSE IF items[i].quantity <= 0 THEN ForItems(b, items, i + 1)
    ELSE LET possible == Possible(b, items[i])
             placed == possible > 0 /\ CanFit(b, items[i], possible)
             b2 == IF placed THEN AddItem(b, items[i], possible) ELSE b
             items2 == IF placed
                       THEN [items EXCEPT ![i].quantity = @ - possible]
                       ELSE items
         IN IF b2.current_weight >= manager.max_weight
               \/ b2.current_volume >= manager.max_volume
            THEN [box |-> b2, items |-> items2]
            ELSE ForItems(b2, items2, i + 1)

\* the test of the while loop; a new box when the body is entered
WhileItemsRemain ==
    /\ pc = "while"
    /\ IF (\E i \in DOMAIN remaining_items : remaining_items[i].quantity > 0)
          /\ Len(order_boxes) < max_boxes
       THEN box' = EmptyBox /\ pc' = "fill"
       ELSE pc' = "returned" /\ UNCHANGED box
    /\ UNCHANGED <<solver_vars, solutions, controller_vars, manager, max_boxes,
                   remaining_items, order_boxes, batching_vars>>

\* the body of the while loop: the box is filled from the items in turn and
\* kept if something was put into it
FillBox ==
    /\ pc = "fill"
    /\ \E r \in {ForItems(box, remaining_items, 1)} :
          /\ box' = r.box
          /\ remaining_items' = r.items
          /\ order_boxes' = IF r.box.contents # <<>>
                            THEN Append(order_boxes, r.box)
                            ELSE order_boxes
    /\ pc' = "while"
    /\ UNCHANGED <<solver_vars, solutions, controller_vars, manager, max_boxes,
                   batching_vars>>

ItemLists ==
    { <<>> }
    \cup { <<PackingItem(1, 1, w, v, q)>> :
             w \in UnitSizes, v \in UnitSizes, q \in 0..MaxQty }
    \cup { <<PackingItem(1, 1, w, v, q), PackingItem(i2, 2, s[1], s[2], q2)>> :
             w \in UnitSizes, v \in UnitSizes, q \in 0..MaxQty,
             i2 \in 1..MaxItems, s \in {<<1, 1>>, <<MaxUnit, 0>>, <<0, 0>>},
             q2 \in 1..MaxQty }

\* a call of fill_boxes_for_order(order_id, items, max_boxes) on a manager
InitPacking ==
    /\ NoRun
    /\ solutions = NoSolutions
    /\ ControllerIdle
    /\ BatchingIdle
    /\ manager \in { [max_weight |-> cw, max_volume |-> MaxCapa - 1] :
                        cw \in {1, MaxCapa} }
    /\ max_boxes \in 0..MaxK
    /\ remaining_items \in ItemLists
    /\ order_boxes = <<>>
    /\ box = EmptyBox
    /\ pc = "while"

NextPacking == WhileItemsRemain \/ FillBox

SpecPacking == InitPacking /\ [][NextPacking]_vars

\* the call is one sequential program: it always takes its next step
FairSpecPacking == SpecPacking /\ WF_vars(NextPacking)

RECURSIVE ContentWeight(_, _)
\* the weight of the first n entries of the contents of a box
ContentWeight(cs, n) ==
    IF n = 0 THEN 0 ELSE ContentWeight(cs, n - 1) + cs[n].count * cs[n].weight

RECURSIVE ContentVolume(_, _)
ContentVolume(cs, n) ==
    IF n = 0 THEN 0 ELSE ContentVolume(cs, n - 1) + cs[n].count * cs[n].volume

RECURSIVE ContentUnits(_, _, _)
\* the units of product idx among the first n entries of the contents
ContentUnits(cs, n, idx) ==
    IF n = 0 THEN 0
    ELSE ContentUnits(cs, n - 1, idx) + (IF cs[n].idx = idx THEN cs[n].count ELSE 0)

RECURSIVE ItemUnits(_, _, _)
\* the units of product idx still asked for by the first n items
ItemUnits(items, n, idx) ==
    IF n = 0 THEN 0
    ELSE ItemUnits(items, n - 1, idx)
         + (IF items[n].idx = idx THEN items[n].quantity ELSE 0)

\* at most max_boxes boxes, each holding something and nothing beyond the
\* capacities
BoxesWithinLimits ==
    /\ Len(order_boxes) <= max_boxes
    /\ \A i \in DOMAIN order_boxes :
          LET cs == order_boxes[i].contents
          IN /\ cs # <<>>
             /\ \A j \in DOMAIN cs : cs[j].count > 0
             /\ ContentWeight(cs, Len(cs)) <= manager.max_weight
             /\ ContentVolume(cs, Len(cs)) <= manager.max_volume

\* what the items lose in a step is what the box appended by the step holds
UnitsAccounted ==
    /\ Len(remaining_items') = Len(remaining_items)
    /\ \A i \in DOMAIN remaining_items :
          /\ remaining_items'[i].quantity <= remaining_items[i].quantity
          /\ remaining_items'[i].quantity >= 0
    /\ \A idx \in 1..MaxItems :
          ItemUnits(remaining_items, Len(remaining_items), idx)
          - ItemUnits(remaining_items', Len(remaining_items'), idx)
          = IF Len(order_boxes') > Len(order_boxes)
            THEN ContentUnits(order_boxes'[Len(order_boxes')].contents,
                              Len(order_boxes'[Len(order_boxes')].contents), idx)
            ELSE 0
    /\ SubSeq(order_boxes', 1, Len(order_boxes)) = order_boxes

\* C36: fill_boxes_for_order holds at most max_boxes boxes, every one of
\* them non-empty and within the weight and the volume capacity, and in
\* every step the quantity of each item decreases by exactly the number of
\* its units put into the box the step adds.
C36_BoxesWithinLimitsAndUnitsAccounted ==
    [][BoxesWithinLimits' /\ UnitsAccounted]_vars

\* max_boxes boxes returned, one of them with two products, and an item left
\* with units for which no box was allowed any more
C36_Witness ==
    /\ pc = "returned"
    /\ Len(order_boxes) = max_boxes
    /\ \E i \in DOMAIN order_boxes : Len(order_boxes[i].contents) = 2
    /\ \E i \in DOMAIN remaining_items : remaining_items[i].quantity > 0

\* C37: fill_boxes_for_order terminates for every list of items and every
\* max_boxes >= 0.
C37_FillTerminates == <>(pc = "returned")

-----------------------------------------------------------------------------
(* Batching boxes into trolleys: batch_boxes *)

\* a box handed to batch_boxes: id tells the box objects apart, contents
\* lists the locations of the items in the box
BatchBox(id, locs) == [id |-> id, contents |-> locs]

\* Trolley(K)
NewTrolley(k) == [max_boxes |-> k, boxes |-> <<>>, total_distance |-> 0]

\* Trolley.can_add_box
CanAddBox(t) == Len(t.boxes) < t.max_boxes

\* Trolley.add_box: a box offered to a full trolley is not added
AddBox(t, b) == IF CanAddBox(t) THEN [t EXCEPT !.boxes = Append(@, b)] ELSE t

RECURSIVE LocationsOf(_, _)
\* the locations of the items in the first n boxes
LocationsOf(bs, n) ==
    IF n = 0 THEN {} ELSE LocationsOf(bs, n - 1) \cup Range(bs[n].contents)

RECURSIVE SumOver(_, _)
\* the sum, over the pairs of locations of P, of the distance of the table,
\* a pair missing from the table counting for UnknownPath
SumOver(P, paths) ==
    IF P = {} THEN 0
    ELSE LET e == CHOOSE x \in P : TRUE
         IN Get(paths, e, UnknownPath) + SumOver(P \ {e}, paths)

RECURSIVE BestBox(_, _, _, _, _)
\* the for loop over remaining_boxes from position i on: best keeps best_box
\* and best_distance as a quotient, best_box being 0 for None and the
\* distance then infinite
BestBox(cur, rem, paths, i, best) ==
    IF i > Len(rem) THEN best.box
    ELSE LET pairs == cur \X Range(rem[i].contents)
             count == Cardinality(pairs)
             total == SumOver(pairs, paths)
             nearer == /\ count > 0
                       /\ \/ best.box = 0
                          \/ total * best.count < best.total * count
         IN BestBox(cur, rem, paths, i + 1,
                    IF nearer THEN [box |-> i, total |-> total, count |-> count]
                    ELSE best)

\* remaining_boxes.pop(i)
Pop(bs, i) == SubSeq(bs, 1, i - 1) \o SubSeq(bs, i + 1, Len(bs))

RECURSIVE LegsKnown(_, _, _)
\* every leg of the route through the first n sorted locations is in the table
LegsKnown(route, n, paths) ==
    n <= 1 \/ (<<route[n - 1], route[n]>> \in DOMAIN paths
               /\ LegsKnown(route, n - 1, paths))

RECURSIVE LegsLength(_, _, _)
LegsLength(route, n, paths) ==
    IF n <= 1 THEN 0
    ELSE paths[<<route[n - 1], route[n]>>] + LegsLength(route, n - 1, paths)

\* Trolley.calculate_tour_distance: from s through the sorted locations to
\* t; None stands for the infinite distance of a route with an unknown leg
TourDistance(t, paths, s, e) ==
    LET locations == SetIterOrder(LocationsOf(t.boxes, Len(t.boxes)))
        route == <<s>> \o locations \o <<e>>
    IN IF locations = <<>> THEN 0
       ELSE IF LegsKnown(route, Len(route), paths)
            THEN LegsLength(route, Len(route), paths)
            ELSE None

\* the test of the outer while loop; a new trolley is offered the first of
\* the remaining boxes
NextTrolley ==
    /\ pc = "batching"
    /\ IF remaining_boxes = <<>>
       THEN pc' = "batched" /\ UNCHANGED <<remaining_boxes, trolley>>
       ELSE /\ trolley' = AddBox(NewTrolley(batch.K), Head(remaining_boxes))
            /\ remaining_boxes' = Tail(remaining_boxes)
            /\ pc' = "nearest"
    /\ UNCHANGED <<solver_vars, solutions, controller_vars, packing_vars,
                   batch, trolleys>>

\* the test of the inner while loop; when it fails the distance of the
\* trolley is computed and the trolley appended
MoreRoom ==
    /\ pc = "nearest"
    /\ IF CanAddBox(trolley) /\ remaining_boxes # <<>>
       THEN pc' = "search" /\ UNCHANGED <<trolley, trolleys>>
       ELSE /\ \E d \in {TourDistance(trolley, batch.shortest_paths,
                                        batch.s, batch.t)} :
                  /\ trolley' = [trolley EXCEPT !.total_distance = d]
                  /\ trolleys' = Append(trolleys, trolley')
            /\ pc' = "batching"
    /\ UNCHANGED <<solver_vars, solutions, controller_vars, packing_vars,
                   batch, remaining_boxes>>

\* the body of the inner while loop: the remaining box nearest on average
\* to the locations of the trolley is moved to the trolley, if there is one
AddNearestBox ==
    /\ pc = "search"
    /\ \E best_box \in {BestBox(LocationsOf(trolley.boxes, Len(trolley.boxes)),
                                remaining_boxes, batch.shortest_paths, 1,
                                [box |-> 0, total |-> 0, count |-> 0])} :
          IF best_box # 0
          THEN /\ trolley' = AddBox(trolley, remaining_boxes[best_box])
               /\ remaining_boxes' = Pop(remaining_boxes, best_box)
          ELSE UNCHANGED <<trolley, remaining_boxes>>
    /\ pc' = "nearest"
    /\ UNCHANGED <<solver_vars, solutions, controller_vars, packing_vars,
                   batch, trolleys>>

\* what a box may hold: nothing, or items at locations 1 and 2
BoxContents == { <<>>, <<1>>, <<2>>, <<1, 2>> }

RECURSIVE BoxListsOfLength(_)
BoxListsOfLength(n) ==
    IF n = 0 THEN { <<>> }
    ELSE { Append(bs, BatchBox(n, c)) : bs \in BoxListsOfLength(n - 1),
                                        c \in BoxContents }

\* {(path['loc_start'], path['loc_end']): path['shortest_path']}
BatchPathTables ==
    { <<>>,
      (<<0, 1>> :> 1) @@ (<<1, 2>> :> 1) @@ (<<2, 0>> :> MaxDist),
      (<<1, 2>> :> MaxDist) @@ (<<2, 1>> :> 1) @@ (<<1, 1>> :> 1) }

\* a call of batch_boxes(boxes, K, shortest_paths, s, t)
InitBatching ==
    /\ NoRun
    /\ solutions = NoSolutions
    /\ ControllerIdle
    /\ PackingIdle
    /\ batch \in { [boxes |-> bs, K |-> k, shortest_paths |-> tbl,
                     s |-> 0, t |-> 0] :
                      bs \in UNION { BoxListsOfLength(n) : n \in 0..MaxBatch },
                      k \in 0..MaxK, tbl \in BatchPathTables }
    /\ remaining_boxes = batch.boxes
    /\ trolleys = <<>>
    /\ trolley = NewTrolley(batch.K)
    /\ pc = "batching"

NextBatching == NextTrolley \/ MoreRoom \/ AddNearestBox

\* the call is one sequential program: it always takes its next step
FairSpecBatching == InitBatching /\ [][NextBatching]_vars /\ WF_vars(NextBatching)

\* the number of places the box id takes in the trolleys
TimesLoaded(id) ==
    Cardinality({ <<k, j>> \in (DOMAIN trolleys) \X (1..MaxBatch + 1) :
                    /\ j \in DOMAIN trolleys[k].boxes
                    /\ trolleys[k].boxes[j].id = id })

\* the trolleys partition the boxes handed in, K boxes at most in each
IsPartition ==
    /\ \A i \in DOMAIN batch.boxes : TimesLoaded(batch.boxes[i].id) = 1
    /\ \A k \in DOMAIN trolleys :
          /\ Len(trolleys[k].boxes) <= batch.K
          /\ \A j \in DOMAIN trolleys[k].boxes :
                \E i \in DOMAIN batch.boxes : batch.boxes[i] = trolleys[k].boxes[j]

\* C38: batch_boxes partitions its input: for every K >= 0 and every list
\* of boxes it terminates, and when it does every input box is in exactly
\* one trolley and no trolley holds more than K boxes.
C38_BatchingPartitions == <>(pc = "batched" /\ IsPartition)

-----------------------------------------------------------------------------
(* The trolley size by default *)

\* instances that give no number of boxes per trolley, or 0: one or two
\* orders of a product of unit weight 1, up to MaxBoxId - 1 units in all,
\* boxes holding one or two units
DefaultTrolleyInstances ==
    { [nb_boxes_trolley |-> nb, capa_box |-> <<cw, 1>>,
       mixed_orders_allowed |-> mx,
       products |-> <<Product(1, 1, 1, 0)>>,
       orders |-> os,
       graph |-> [departing_depot |-> 0, arrival_depot |-> 0,
                  shortest_distances |-> <<Path(0, 1, 1)>>]] :
        nb \in {None, 0}, cw \in 1..2, mx \in BOOLEAN,
        os \in { <<Order(id, <<Line(1, q)>>)>> :
                   id \in {0, 1}, q \in 1..(MaxBoxId - 1) }
               \cup
               { <<Order(ids[1], <<Line(1, q)>>), Order(ids[2], <<Line(1, 1)>>)>> :
                   ids \in {<<1, 2>>, <<2, 1>>, <<0, 1>>},
                   q \in 1..(MaxBoxId - 2) } }

InitDefaultTrolley ==
    /\ instance \in DefaultTrolleyInstances
    /\ RunStart

SpecDefaultTrolley == InitDefaultTrolley /\ [][Next]_vars

\* C39: when the instance's boxes-per-trolley value is missing or 0, a tour
\* never has more than 6 boxes, and every iteration of the run loop that
\* finds an order not done starts a tour with an initial box for each order
\* it activates.
C39_DefaultOfSixBoxes ==
    [][instance.nb_boxes_trolley \in {None, 0}
          => /\ Len(boxes') <= 6
             /\ (pc = "loop" /\ ~AllDone(orders_state))
                   => /\ pc' = "visit"
                      /\ active_orders' # <<>>
                      /\ \A i \in DOMAIN active_orders' :
                            \E j \in DOMAIN boxes' :
                                /\ boxes'[j].order_id = active_orders'[i]
                                /\ IsEmptyBox(boxes'[j])
      ]_vars

\* a tour of six boxes was emitted and the order, not yet done, has its
\* initial box in the next tour
C39_Witness ==
    /\ instance.nb_boxes_trolley \in {None, 0}
    /\ pc = "visit"
    /\ Len(tours_out) = 1
    /\ Len(tours_out[1].boxes) = 6
    /\ Len(boxes) >= 1

====
